---- MODULE Spec2Model ----
(***************************************************************************)
(* A model of the magus name generator: the in-process cache               *)
(* (app/services/cache_service.py), the phonetics scorer                   *)
(* (app/core/phonetics.py), the syllable assembler and generation engine   *)
(* (app/core/syllables.py, app/core/generator.py), the orchestrator        *)
(* (app/services/name_service.py), the cache service with its Redis and    *)
(* no-op backends, and the list-based endpoint of main.py.                 *)
(*                                                                         *)
(* Conventions.  Python's None is the empty tuple and a present value v is *)
(* <<v>>.  Strings that the code inspects character by character are       *)
(* sequences of one-character strings.  Scores are integers in hundredths  *)
(* (1.0 is 100).  A call that ends by raising records the exception's name *)
(* in an exc field; "none" means it returned.                              *)
(***************************************************************************)
EXTENDS Integers, Sequences, FiniteSets, TLC

(***************************************************************************)
(* Bounds of the model.                                                    *)
(***************************************************************************)
MaxCap == 2          \* largest max_size an InMemoryCache is built with
MaxTime == 2         \* the clock stops advancing after this many ticks
MaxTTL == 1          \* ttl arguments of set range over 0..MaxTTL
MaxGets == 2         \* at most this many cache gets are counted

\* cache keys are strings: clear_pattern matches them character by character
Keys == {<<"a", "1">>, <<"a", "2">>, <<"b", "1">>}
Values == {"v1", "v2"}
TTLs == 0..MaxTTL

None == <<>>
Some(v) == <<v>>

VARIABLES
    cache,      \* InMemoryCache.cache: the OrderedDict, oldest entry first
    expiry,     \* InMemoryCache.expiry: key -> absolute expiry time
    max_size,   \* InMemoryCache.max_size
    hits,       \* InMemoryCache.hits
    misses,     \* InMemoryCache.misses
    now,        \* time.time()
    ret,        \* the last cache operation: a get's result, a set's evicted key
    lastSet,    \* history: per key, the latest ttl > 0 set still in force
    touch       \* history: the stored keys, least recently touched first

cacheVars == <<cache, expiry, max_size, hits, misses, now, ret, lastSet, touch>>

(***************************************************************************)
(* The OrderedDict: a sequence of [key, value] entries, oldest first.      *)
(***************************************************************************)
CacheKeys(c) == {c[i].key : i \in 1..Len(c)}

CacheValue(c, k) == (CHOOSE i \in 1..Len(c) : c[i].key = k)

Lookup(c, k) == c[CacheValue(c, k)].value

DelKey(c, k) == SelectSeq(c, LAMBDA e : e.key # k)

\* self.cache.move_to_end(key)
move_to_end(c, k) == Append(DelKey(c, k), [key |-> k, value |-> Lookup(c, k)])

\* self.cache[key] = value: an existing key keeps its place, a new one goes last
StoreValue(c, k, v) ==
    IF k \in CacheKeys(c)
    THEN [i \in 1..Len(c) |-> IF c[i].key = k THEN [key |-> k, value |-> v] ELSE c[i]]
    ELSE Append(c, [key |-> k, value |-> v])

\* del d[key] on a plain dict
DelDict(d, k) == [x \in DOMAIN d \ {k} |-> d[x]]

\* d[key] = t on a plain dict
PutDict(d, k, t) == [x \in DOMAIN d \cup {k} |-> IF x = k THEN t ELSE d[x]]

EmptyDict == [x \in {} |-> 0]

(***************************************************************************)
(* InMemoryCache.get                                                       *)
(***************************************************************************)
\* time.time() < expiry_time, with expiry_time = self.expiry.get(key, inf)
Unexpired_AtOrBefore(e, k, t) == k \notin DOMAIN e \/ t <= e[k]

Unexpired(e, k, t) == k \notin DOMAIN e \/ t < e[k]

\* the recency bump of a hit
Promote_Nothing(c, k) == c

Promote(c, k) == move_to_end(c, k)

\* del self.cache[key] of an expired key
Purge_Keep(c, k) == c

Purge(c, k) == DelKey(c, k)

\* history: a key removed from the store is forgotten
Forget(seq, k) == SelectSeq(seq, LAMBDA x : x # k)

\* history: a touch (a set or a successful get) makes the key the newest
Touched(seq, k) == Append(Forget(seq, k), k)

NoRet == [op |-> "none", key |-> None, val |-> None]

\* history: the latest set of a key with ttl > 0 that no eviction, delete or
\* clear has undone since: its value and its deadline (insertion time + ttl).
\* Once a get has found the deadline passed, only that fact is remembered.
NoSet == [live |-> FALSE, v |-> None, deadline |-> 0]

Lapsed == [live |-> TRUE, v |-> None, deadline |-> 0]

InMemoryCache_get(key) ==
    /\ hits + misses < MaxGets
    /\ IF key \in CacheKeys(cache)
       THEN IF Unexpired(expiry, key, now)
            THEN /\ cache' = Promote(cache, key)
                 /\ hits' = hits + 1
                 /\ ret' = [op |-> "get", key |-> Some(key),
                            val |-> Some(Lookup(cache, key))]
                 /\ touch' = Touched(touch, key)
                 /\ UNCHANGED <<expiry, misses, lastSet>>
            ELSE /\ cache' = Purge(cache, key)
                 /\ expiry' = DelDict(expiry, key)
                 /\ misses' = misses + 1
                 /\ ret' = [op |-> "get", key |-> Some(key), val |-> None]
                 /\ touch' = Forget(touch, key)
                 /\ lastSet' = [lastSet EXCEPT
                                  ![key] = IF @.live /\ @.deadline <= now
                                           THEN Lapsed ELSE @]
                 /\ UNCHANGED hits
       ELSE /\ misses' = misses + 1
            /\ ret' = [op |-> "get", key |-> Some(key), val |-> None]
            /\ lastSet' = [lastSet EXCEPT
                             ![key] = IF @.live /\ @.deadline <= now
                                      THEN Lapsed ELSE @]
            /\ UNCHANGED <<cache, expiry, hits, touch>>
    /\ UNCHANGED <<max_size, now>>

(***************************************************************************)
(* InMemoryCache.set                                                       *)
(***************************************************************************)
\* a new key always pushes the oldest one out
MustEvict_Early(c, n, k) == c # <<>> /\ k \notin CacheKeys(c)

\* a new key pushes the oldest one out only when the store is over its size
MustEvict_Late(c, n, k) == Len(c) > n /\ k \notin CacheKeys(c)

\* len(self.cache) >= self.max_size and key not in self.cache
MustEvict(c, n, k) == Len(c) >= n /\ k \notin CacheKeys(c)

\* oldest_key = next(iter(self.cache))
oldest_key(c) == c[1].key

AfterEvict(c, n, k) == IF MustEvict(c, n, k) THEN DelKey(c, oldest_key(c)) ELSE c

\* the evicted key keeps its expiry record
ExpiryAfterEvict_Keep(c, e, n, k) == e

ExpiryAfterEvict(c, e, n, k) ==
    IF MustEvict(c, n, k) /\ oldest_key(c) \in DOMAIN e
    THEN DelDict(e, oldest_key(c)) ELSE e

\* if ttl > 0: self.expiry[key] = time.time() + ttl
ExpiryAfterSet(e, k, ttl, t) == IF ttl > 0 THEN PutDict(e, k, t + ttl) ELSE e

InMemoryCache_set(key, value, ttl) ==
    /\ cache' = move_to_end(StoreValue(AfterEvict(cache, max_size, key), key, value), key)
    /\ expiry' = ExpiryAfterSet(ExpiryAfterEvict(cache, expiry, max_size, key),
                                key, ttl, now)
    /\ LET gone == CacheKeys(cache) \ CacheKeys(cache')
       IN  /\ ret' = [op |-> "set", key |-> Some(key),
                      val |-> IF gone = {} THEN None ELSE Some(CHOOSE k \in gone : TRUE)]
           /\ lastSet' = [k \in DOMAIN lastSet |->
                            IF k = key
                            THEN IF ttl > 0
                                 THEN [live |-> TRUE, v |-> Some(value),
                                       deadline |-> now + ttl]
                                 ELSE NoSet
                            ELSE IF k \in gone THEN NoSet ELSE lastSet[k]]
           /\ touch' = Touched(SelectSeq(touch, LAMBDA x : x \notin gone), key)
    /\ UNCHANGED <<max_size, hits, misses, now>>

(***************************************************************************)
(* InMemoryCache.delete and InMemoryCache.clear_all                        *)
(***************************************************************************)
InMemoryCache_delete(key) ==
    /\ IF key \in CacheKeys(cache)
       THEN /\ cache' = DelKey(cache, key)
            /\ expiry' = IF key \in DOMAIN expiry THEN DelDict(expiry, key) ELSE expiry
       ELSE UNCHANGED <<cache, expiry>>
    /\ ret' = [op |-> "delete", key |-> Some(key), val |-> None]
    /\ lastSet' = [lastSet EXCEPT ![key] = NoSet]
    /\ touch' = Forget(touch, key)
    /\ UNCHANGED <<max_size, hits, misses, now>>

InMemoryCache_clear_all ==
    /\ cache' = <<>>
    /\ expiry' = EmptyDict
    /\ hits' = 0
    /\ misses' = 0
    /\ ret' = [op |-> "clear_all", key |-> None, val |-> None]
    /\ lastSet' = [k \in DOMAIN lastSet |-> NoSet]
    /\ touch' = <<>>
    /\ UNCHANGED <<max_size, now>>

\* the clock: time.time() grows between calls
Tick(d) ==
    /\ now + d <= MaxTime * d
    /\ now' = now + d
    /\ UNCHANGED <<cache, expiry, max_size, hits, misses, ret, lastSet, touch>>


(***************************************************************************)
(* Strings.                                                                *)
(***************************************************************************)
LowerOf == [A |-> "a", B |-> "b", E |-> "e", L |-> "l", N |-> "n", T |-> "t",
            X |-> "x", Z |-> "z"]

UpperOf == [a |-> "A", b |-> "B", e |-> "E", l |-> "L", n |-> "N", t |-> "T",
            x |-> "X", z |-> "Z"]

\* str.lower(), one character
LowerChar(c) == IF c \in DOMAIN LowerOf THEN LowerOf[c] ELSE c

UpperChar(c) == IF c \in DOMAIN UpperOf THEN UpperOf[c] ELSE c

\* str.lower()
lower(str) == [i \in 1..Len(str) |-> LowerChar(str[i])]

\* str.capitalize(): the first character upper-cased, the rest lower-cased
capitalize(str) ==
    [i \in 1..Len(str) |-> IF i = 1 THEN UpperChar(str[i]) ELSE LowerChar(str[i])]

\* str.startswith(p)
startswith(str, p) == Len(p) <= Len(str) /\ SubSeq(str, 1, Len(p)) = p

\* str.endswith(p)
endswith(str, p) ==
    Len(p) <= Len(str) /\ SubSeq(str, Len(str) - Len(p) + 1, Len(str)) = p

\* p in str, for two strings
substring(p, str) ==
    \E i \in 1..(Len(str) - Len(p) + 1) : SubSeq(str, i, i + Len(p) - 1) = p

RECURSIVE fnmatch(_, _)
\* fnmatch.fnmatch(name, pat) for patterns of literal characters, * and ?
\* (the keys and patterns of the model hold no [ and no upper-case letter)
fnmatch(name, pat) ==
    IF pat = <<>> THEN name = <<>>
    ELSE IF Head(pat) = "*"
         THEN fnmatch(name, Tail(pat)) \/ (name # <<>> /\ fnmatch(Tail(name), pat))
    ELSE IF Head(pat) = "?"
         THEN name # <<>> /\ fnmatch(Tail(name), Tail(pat))
    ELSE name # <<>> /\ Head(name) = Head(pat) /\ fnmatch(Tail(name), Tail(pat))

RECURSIVE join(_)
\* ''.join(list)
join(list) == IF list = <<>> THEN <<>> ELSE Head(list) \o join(Tail(list))

(***************************************************************************)
(* PhoneticsScorer (app/core/phonetics.py).  A Python value that the code  *)
(* tests with `in` is either a string or a bound method.                   *)
(***************************************************************************)
forbidden_initial == {<<"n", "g">>, <<"n", "k">>, <<"m", "b">>, <<"w", "r">>}

forbidden_final == {<<"h">>, <<"w">>, <<"y">>}

difficult_clusters == <<
    <<"t", "h", "r">>, <<"s", "p", "r">>, <<"s", "t", "r">>, <<"s", "c", "r">> >>

scorer_vowels == {"a", "e", "i", "o", "u", "y"}

StrValue(str) == [kind |-> "str", chars |-> str]

\* name.lower, the attribute: the bound method itself, for it is not called
name_lower_attr(name) == [kind |-> "method", chars |-> <<>>]

\* `x in y`: the substring test on a string; a method is no container, and
\* Python raises TypeError (argument of type 'builtin_function_or_method' is
\* not iterable)
contains(y, x) ==
    IF y.kind = "str"
    THEN [exc |-> "none", val |-> substring(x, y.chars)]
    ELSE [exc |-> "TypeError", val |-> FALSE]

RECURSIVE cluster_penalty(_, _)
\* for cluster in self.difficult_clusters: if cluster in name.lower: score -= 0.2
\* the penalty in hundredths, or the exception the first failing test raises
cluster_penalty(clusters, name) ==
    IF clusters = <<>> THEN [exc |-> "none", val |-> 0]
    ELSE LET test == contains(name_lower_attr(name), Head(clusters))
             rest == cluster_penalty(Tail(clusters), name)
         IN  IF test.exc # "none" THEN [exc |-> test.exc, val |-> 0]
             ELSE IF rest.exc # "none" THEN rest
             ELSE [exc |-> "none", val |-> rest.val + (IF test.val THEN 20 ELSE 0)]

RECURSIVE consonant_runs(_, _, _)
\* PhoneticsScorer._max_consecutive_consonants
consonant_runs(name, current_count, max_count) ==
    IF name = <<>> THEN max_count
    ELSE IF Head(name) \notin scorer_vowels
         THEN consonant_runs(Tail(name), current_count + 1,
                             IF current_count + 1 > max_count
                             THEN current_count + 1 ELSE max_count)
         ELSE consonant_runs(Tail(name), 0, max_count)

max_consecutive_consonants(name) == consonant_runs(name, 0, 0)

Clamp(x) == IF x < 0 THEN 0 ELSE IF x > 100 THEN 100 ELSE x

\* the penalties of PhoneticsScorer.score, in hundredths, one field for each
\* test of the method in the order of the code
penalties(name, culture) ==
    LET name_lower == lower(name)
        vowel_count == Cardinality({i \in 1..Len(name_lower) :
                                      name_lower[i] \in scorer_vowels})
        max_consonants == max_consecutive_consonants(name_lower)
    IN  [initial |-> 10 * Cardinality({p \in forbidden_initial :
                                         startswith(name_lower, p)}),
         final |-> 10 * Cardinality({p \in forbidden_final : endswith(name_lower, p)}),
         clusters |-> cluster_penalty(difficult_clusters, name),
         \* vowel_ratio < 0.3 or vowel_ratio > 0.6, with vowel_ratio = count / len
         ratio |-> IF 10 * vowel_count < 3 * Len(name_lower)
                      \/ 10 * vowel_count > 6 * Len(name_lower) THEN 15 ELSE 0,
         runs |-> IF max_consonants > 3 THEN (max_consonants - 3) * 10 ELSE 0,
         harsh |-> IF culture = "elvish"
                      /\ \E i \in 1..Len(name_lower) : name_lower[i] \in {"k", "g", "x"}
                   THEN 10 ELSE 0]

\* PhoneticsScorer.score: [exc, val], val in hundredths
score(name, culture) ==
    LET p == penalties(name, culture)
    IN  IF p.clusters.exc # "none" THEN [exc |-> p.clusters.exc, val |-> 0]
        ELSE IF Len(lower(name)) = 0 THEN [exc |-> "ZeroDivisionError", val |-> 0]
        ELSE [exc |-> "none",
              val |-> Clamp(100 - p.initial - p.final - p.clusters.val
                                - p.ratio - p.runs - p.harsh)]

(***************************************************************************)
(* Culture templates handed to NameGenerator.  A pool the template leaves  *)
(* out is None, and SyllableGenerator falls back on its default.           *)
(***************************************************************************)
MaxAttempts == 2     \* the attempts argument of generate ranges over 0..MaxAttempts

CV == <<"C", "V">>
V == <<"V">>
VC == <<"V", "C">>

\* the fixture of tests/unit/test_generator.py, its pools cut to two letters
FixtureTemplate ==
    [consonants |-> Some(<<"l", "n">>), vowels |-> Some(<<"a", "e">>),
     nasals |-> None, liquids |-> None,
     patterns |-> [initial |-> <<CV, V>>, medial |-> <<CV, V>>, final |-> <<V, VC>>],
     gender_patterns |-> [g \in {} |-> 0]]

\* the same patterns over empty phoneme pools
EmptyPoolTemplate ==
    [consonants |-> Some(<<>>), vowels |-> Some(<<>>),
     nasals |-> Some(<<>>), liquids |-> Some(<<>>),
     patterns |-> [initial |-> <<CV, V>>, medial |-> <<CV, V>>, final |-> <<V, VC>>],
     gender_patterns |-> [g \in {} |-> 0]]

\* a template shaped like those of scripts/seed_database.py: the gender lists
\* override initial and final and leave medial to the base patterns
GenderedTemplate ==
    [consonants |-> Some(<<"l", "n">>), vowels |-> Some(<<"a", "e">>),
     nasals |-> None, liquids |-> None,
     patterns |-> [initial |-> <<CV>>, medial |-> <<CV>>, final |-> <<VC>>],
     gender_patterns |-> [feminine |-> [initial |-> <<V>>, final |-> <<V>>]]]

templates ==
    [elvish |-> FixtureTemplate, dwarven |-> EmptyPoolTemplate, human |-> GenderedTemplate]

Cultures == {"elvish", "dwarven", "human", "orcish"}
Genders == {None, Some("feminine")}
Lengths == {None, Some("short"), Some("medium"), Some("long")}

(***************************************************************************)
(* SyllableGenerator.generate (app/core/syllables.py)                      *)
(***************************************************************************)
default_consonants == <<"b", "c", "d", "f", "g", "h", "j", "k", "l", "m", "n",
                        "p", "r", "s", "t", "v", "w", "y", "z">>

default_vowels == <<"a", "e", "i", "o", "u", "y">>

\* template.get(key, default)
GetOr(field, default) == IF field = None THEN default ELSE field[1]

\* random.choice(seq): any element, IndexError on an empty sequence
random_choice(seq) ==
    IF seq = <<>> THEN {[exc |-> "IndexError", val |-> <<>>]}
    ELSE {[exc |-> "none", val |-> <<seq[i]>>] : i \in 1..Len(seq)}

\* a draw that yields nothing from an empty pool instead of raising
Draw_Lenient(template, char) ==
    LET pool == CASE char = "C" -> GetOr(template.consonants, default_consonants)
                  [] char = "V" -> GetOr(template.vowels, default_vowels)
                  [] char = "N" -> GetOr(template.nasals, <<"m", "n">>)
                  [] char = "L" -> GetOr(template.liquids, <<"l", "r">>)
                  [] OTHER -> <<char>>
    IN  IF pool = <<>> THEN {[exc |-> "none", val |-> <<>>]} ELSE random_choice(pool)

\* a draw that has no branch for a character other than C, V, N and L
Draw_NoLiteral(template, char) ==
    CASE char = "C" -> random_choice(GetOr(template.consonants, default_consonants))
      [] char = "V" -> random_choice(GetOr(template.vowels, default_vowels))
      [] char = "N" -> random_choice(GetOr(template.nasals, <<"m", "n">>))
      [] char = "L" -> random_choice(GetOr(template.liquids, <<"l", "r">>))
      [] OTHER -> {[exc |-> "none", val |-> <<>>]}

\* one character of the pattern: a draw from its pool, or the character itself
Draw(template, char) ==
    CASE char = "C" -> random_choice(GetOr(template.consonants, default_consonants))
      [] char = "V" -> random_choice(GetOr(template.vowels, default_vowels))
      [] char = "N" -> random_choice(GetOr(template.nasals, <<"m", "n">>))
      [] char = "L" -> random_choice(GetOr(template.liquids, <<"l", "r">>))
      [] OTHER -> {[exc |-> "none", val |-> <<char>>]}

RECURSIVE SyllableGenerator_generate(_, _)
\* every result the assembly of one pattern can have: [exc, val]
SyllableGenerator_generate(pattern, template) ==
    IF pattern = <<>> THEN {[exc |-> "none", val |-> <<>>]}
    ELSE UNION {
           IF d.exc # "none" THEN {d}
           ELSE {[exc |-> r.exc, val |-> IF r.exc = "none" THEN d.val \o r.val ELSE <<>>] :
                   r \in SyllableGenerator_generate(Tail(pattern), template)} :
           d \in Draw(template, Head(pattern))}

(***************************************************************************)
(* NameGenerator (app/core/generator.py)                                   *)
(***************************************************************************)
\* NameGenerator._determine_syllable_count
determine_syllable_count(length) ==
    CASE length = Some("short") -> {2}
      [] length = Some("medium") -> {3}
      [] length = Some("long") -> {4}
      [] OTHER -> 2..4

\* NameGenerator._apply_transforms
apply_transforms(name, template) == name

\* NameGenerator._fallback_name
fallback_name(culture, gender) ==
    [exc |-> "none", name |-> <<"U", "n", "n", "a", "m", "e", "d", "-", culture>>,
     syllables |-> << <<"U", "n", "n", "a", "m", "e", "d", "-", culture>> >>, score |-> 0]

\* the pattern lists _generate_syllables draws from
active_patterns(template, gender) ==
    IF gender # None /\ gender[1] \in DOMAIN template.gender_patterns
    THEN template.gender_patterns[gender[1]]
    ELSE template.patterns

\* the position test without its `elif i == num_syllables - 1` branch
position_NoFinal(i, num_syllables) == IF i = 0 THEN "initial" ELSE "medial"

position(i, num_syllables) ==
    IF i = 0 THEN "initial" ELSE IF i = num_syllables - 1 THEN "final" ELSE "medial"

RECURSIVE syllables_from(_, _, _, _)
\* the loop of _generate_syllables from index i on: every [exc, val] it can end with
syllables_from(i, num_syllables, patterns, template) ==
    IF i = num_syllables THEN {[exc |-> "none", val |-> <<>>]}
    ELSE IF position(i, num_syllables) \notin DOMAIN patterns
         THEN {[exc |-> "KeyError", val |-> <<>>]}
    ELSE UNION {
           IF p.exc # "none" THEN {p}
           ELSE UNION {
                  IF syl.exc # "none" THEN {syl}
                  ELSE {[exc |-> r.exc,
                         val |-> IF r.exc = "none" THEN <<syl.val>> \o r.val ELSE <<>>] :
                          r \in syllables_from(i + 1, num_syllables, patterns, template)} :
                  syl \in SyllableGenerator_generate(p.val[1], template)} :
           p \in random_choice(patterns[position(i, num_syllables)])}

\* NameGenerator._generate_syllables
generate_syllables(template, gender, length) ==
    UNION {syllables_from(0, n, active_patterns(template, gender), template) :
             n \in determine_syllable_count(length)}

VARIABLES
    sc,         \* one PhoneticsScorer.score call: its arguments and its outcome
    gen         \* one NameGenerator.generate call: arguments, loop state, outcome

NoScore == [pc |-> "idle", name |-> <<>>, culture |-> None, exc |-> "none", val |-> 0]

NoGen == [pc |-> "idle", culture |-> "", gender |-> None, length |-> None,
          attempts |-> 0, tried |-> 0, scored |-> 0, exc |-> "none",
          name |-> <<>>, syllables |-> <<>>, score |-> 0]

\* generate(culture, gender, length, attempts): template = self.templates[culture]
generate_call(culture, gender, length, attempts) ==
    /\ gen.pc = "idle"
    /\ gen' = IF culture \in DOMAIN templates
              THEN [NoGen EXCEPT !.pc = "loop", !.culture = culture, !.gender = gender,
                                 !.length = length, !.attempts = attempts]
              ELSE [NoGen EXCEPT !.pc = "done", !.culture = culture, !.gender = gender,
                                 !.length = length, !.attempts = attempts,
                                 !.exc = "KeyError"]

\* one pass of `for _ in range(attempts)`
generate_attempt ==
    /\ gen.pc = "loop"
    /\ gen.tried < gen.attempts
    /\ \E s \in generate_syllables(templates[gen.culture], gen.gender, gen.length) :
         IF s.exc # "none"
         THEN gen' = [gen EXCEPT !.pc = "done", !.tried = @ + 1, !.exc = s.exc]
         ELSE LET name == apply_transforms(join(s.val), templates[gen.culture])
                  sco == score(name, gen.culture)
              IN  IF sco.exc # "none"
                  THEN gen' = [gen EXCEPT !.pc = "done", !.tried = @ + 1,
                                          !.scored = @ + 1, !.exc = sco.exc,
                                          !.name = name, !.syllables = s.val]
                  ELSE IF sco.val >= 60
                  THEN gen' = [gen EXCEPT !.pc = "done", !.tried = @ + 1,
                                          !.scored = @ + 1, !.name = capitalize(name),
                                          !.syllables = s.val, !.score = sco.val]
                  ELSE gen' = [gen EXCEPT !.tried = @ + 1, !.scored = @ + 1]

\* the budget is spent: return self._fallback_name(culture, gender)
generate_fallback ==
    /\ gen.pc = "loop"
    /\ gen.tried = gen.attempts
    /\ LET f == fallback_name(gen.culture, gen.gender)
       IN  gen' = [gen EXCEPT !.pc = "done", !.name = f.name,
                              !.syllables = f.syllables, !.score = f.score]

\* scorer.score(name, culture), called on its own
score_call(name, culture) ==
    /\ sc.pc = "idle"
    /\ LET r == score(name, culture)
       IN  sc' = [pc |-> "done", name |-> name, culture |-> culture,
                  exc |-> r.exc, val |-> r.val]

VARIABLES
    syl         \* one SyllableGenerator.generate call: arguments and outcome

NoSyl == [pc |-> "idle", pattern |-> <<>>,
          template |-> [consonants |-> None, vowels |-> None,
                        nasals |-> None, liquids |-> None],
          exc |-> "none", val |-> <<>>]

\* syllable_gen.generate(pattern, template), called on its own
syllable_call(pattern, template) ==
    /\ syl.pc = "idle"
    /\ \E r \in SyllableGenerator_generate(pattern, template) :
         syl' = [pc |-> "done", pattern |-> pattern, template |-> template,
                 exc |-> r.exc, val |-> r.val]

(***************************************************************************)
(* RedisCache (app/services/cache_service.py) and what surrounds the       *)
(* service.  Every call on redis_client is a network call: it raises when  *)
(* the network is down.                                                    *)
(***************************************************************************)
VARIABLES
    redis,      \* the external store: full key -> [json, expire_at]
    env,        \* [redis_pkg: the redis package imports, net: the server answers]
    settings    \* CacheService.settings; an attribute the object lacks is None

\* Settings.cache_ttl
SettingsCacheTTL == 3600

\* an element of a cached list that is an object of a pydantic model (a
\* GeneratedName) and not a dict: the JSON encoder knows no such type
is_model(item) == "py_type" \in DOMAIN item

\* json.dumps(value) and json.loads(text): the text wraps the list it
\* encodes; TypeError (Object of type ... is not JSON serializable) for a
\* list that holds a model object
json_dumps(value) ==
    IF \E i \in 1..Len(value) : is_model(value[i])
    THEN [exc |-> "TypeError", text |-> [json |-> <<>>]]
    ELSE [exc |-> "none", text |-> [json |-> value]]

json_loads(text) == text.json

\* RedisCache.key_prefix, from settings.redis_key_prefix
key_prefix == settings.redis_key_prefix[1]

\* RedisCache._make_key
make_key(key) == key_prefix \o key

\* a key the server still holds: SETEX entries lapse at expire_at
RedisHolds(full_key) ==
    /\ full_key \in DOMAIN redis
    /\ (redis[full_key].expire_at # None => now < redis[full_key].expire_at[1])

\* the server drops the entries whose time is up at t
RedisExpire(t) ==
    [k \in {x \in DOMAIN redis :
              redis[x].expire_at # None => t < redis[x].expire_at[1]} |-> redis[k]]

\* the keys SCAN returns for a match pattern, all cursor rounds together
scan(match) == {k \in DOMAIN redis : RedisHolds(k) /\ fnmatch(k, match)}

\* DEL of a set of keys
RedisDel(keys) == [k \in DOMAIN redis \ keys |-> redis[k]]

InMemUnchanged == UNCHANGED <<cache, expiry, max_size, hits, misses, now, lastSet, touch>>

\* RedisCache.get: the value, or None on a miss and on any exception
RedisCache_get(key) ==
    /\ ret' = [op |-> "get", key |-> Some(key),
               val |-> IF env.net /\ RedisHolds(make_key(key))
                       THEN Some(json_loads(redis[make_key(key)].json))
                       ELSE None]
    /\ UNCHANGED redis
    /\ InMemUnchanged

\* RedisCache.set: SETEX for ttl > 0, SET otherwise; False on any exception
RedisCache_set(key, value, ttl) ==
    /\ redis' = IF env.net /\ json_dumps(value).exc = "none"
                THEN PutDict(redis, make_key(key),
                             [json |-> json_dumps(value).text,
                              expire_at |-> IF ttl > 0 THEN Some(now + ttl) ELSE None])
                ELSE redis
    /\ ret' = [op |-> "set", key |-> Some(key),
               val |-> Some(env.net /\ json_dumps(value).exc = "none")]
    /\ InMemUnchanged

\* RedisCache.delete: result > 0, or False on any exception
RedisCache_delete(key) ==
    /\ redis' = IF env.net THEN RedisDel({make_key(key)}) ELSE redis
    /\ ret' = [op |-> "delete", key |-> Some(key),
               val |-> Some(env.net /\ RedisHolds(make_key(key)))]
    /\ InMemUnchanged

\* RedisCache.clear_all: every key under the prefix; False on any exception
RedisCache_clear_all ==
    /\ redis' = IF env.net THEN RedisDel(scan(key_prefix \o <<"*">>)) ELSE redis
    /\ ret' = [op |-> "clear_all", key |-> None, val |-> Some(env.net)]
    /\ InMemUnchanged

\* RedisCache.ping
RedisCache_ping == env.net

(***************************************************************************)
(* CacheService (app/services/cache_service.py) over its backend           *)
(***************************************************************************)
VARIABLES
    backend,    \* CacheService.backend: the class of the installed backend
    stats,      \* CacheService.stats
    svc         \* the last CacheService call: what its caller got back

NoSvc == [op |-> "none", arg |-> None, exc |-> "none", val |-> None, failed |-> FALSE]

\* a network call made for the backend fails
NetFails == backend = "RedisCache" /\ ~env.net

\* what the caller of a CacheService method gets back: a value or an exception
Outcome(op, arg, exc, val) ==
    [op |-> op, arg |-> arg, exc |-> exc, val |-> val, failed |-> NetFails]

\* self.settings.cache_disabled is read first: AttributeError or True end in NoOpCache
CachingOff == settings.cache_disabled = None \/ settings.cache_disabled[1]

\* RedisCache(redis_url=..., key_prefix=self.settings.redis_key_prefix) is built
\* and `await self.backend.ping()` is true
RedisComesUp == settings.redis_key_prefix # None /\ env.redis_pkg /\ env.net

\* InMemoryCache(max_size=self.settings.cache_max_size) is built
InMemoryComesUp == settings.cache_max_size # None

\* the backend initialize installs
chosen_backend ==
    IF CachingOff THEN "NoOpCache"
    ELSE IF settings.use_redis /\ RedisComesUp THEN "RedisCache"
    ELSE IF InMemoryComesUp THEN "InMemoryCache"
    ELSE "NoOpCache"

\* CacheService.initialize
CacheService_initialize ==
    /\ backend = "None"
    /\ backend' = chosen_backend
    /\ IF chosen_backend = "InMemoryCache"
       THEN /\ cache' = <<>>
            /\ expiry' = EmptyDict
            /\ max_size' = settings.cache_max_size[1]
            /\ hits' = 0
            /\ misses' = 0
       ELSE UNCHANGED <<cache, expiry, max_size, hits, misses>>
    /\ svc' = [op |-> "initialize", arg |-> None, exc |-> "none", val |-> None,
               failed |-> ~CachingOff /\ settings.use_redis /\ ~RedisComesUp]
    /\ UNCHANGED <<now, ret, lastSet, touch, redis, stats>>

\* CacheService.get
CacheService_get(key) ==
    /\ stats.hits + stats.misses < MaxGets
    /\ IF backend = "InMemoryCache" THEN InMemoryCache_get(key) /\ UNCHANGED redis
       ELSE IF backend = "RedisCache" THEN RedisCache_get(key)
       ELSE IF backend = "NoOpCache"
       THEN /\ ret' = [op |-> "get", key |-> Some(key), val |-> None]
            /\ InMemUnchanged
            /\ UNCHANGED redis
       ELSE InMemUnchanged /\ UNCHANGED <<ret, redis>>
    /\ LET value == IF backend = "None" THEN None ELSE ret'.val
       IN  /\ stats' = IF backend = "None" THEN stats
                       ELSE IF value # None THEN [stats EXCEPT !.hits = @ + 1]
                       ELSE [stats EXCEPT !.misses = @ + 1]
           /\ svc' = Outcome("get", Some(key), "none", value)
    /\ UNCHANGED backend

\* ttl = self.settings.cache_ttl when the caller gives none
effective_ttl(ttl) == IF ttl = None THEN settings.cache_ttl ELSE ttl[1]

\* CacheService.set
CacheService_set(key, value, ttl) ==
    /\ IF backend = "InMemoryCache"
       THEN InMemoryCache_set(key, value, effective_ttl(ttl)) /\ UNCHANGED redis
       ELSE IF backend = "RedisCache"
       THEN RedisCache_set(key, value, effective_ttl(ttl))
       ELSE IF backend = "NoOpCache"
       THEN /\ ret' = [op |-> "set", key |-> Some(key), val |-> None]
            /\ InMemUnchanged
            /\ UNCHANGED redis
       ELSE InMemUnchanged /\ UNCHANGED <<ret, redis>>
    /\ svc' = Outcome("set", Some(key), "none",
                      Some(IF backend = "RedisCache" THEN ret'.val[1]
                           ELSE backend # "None"))
    /\ UNCHANGED <<backend, stats>>

\* CacheService.delete
CacheService_delete(key) ==
    /\ IF backend = "InMemoryCache" THEN InMemoryCache_delete(key) /\ UNCHANGED redis
       ELSE IF backend = "RedisCache" THEN RedisCache_delete(key)
       ELSE InMemUnchanged /\ UNCHANGED <<ret, redis>>
    /\ svc' = Outcome("delete", Some(key), "none",
                      Some(IF backend = "InMemoryCache" THEN key \in CacheKeys(cache)
                           ELSE IF backend = "RedisCache" THEN ret'.val[1]
                           ELSE backend = "NoOpCache"))
    /\ UNCHANGED <<backend, stats>>

\* CacheService.clear_all
CacheService_clear_all ==
    /\ IF backend = "InMemoryCache" THEN InMemoryCache_clear_all /\ UNCHANGED redis
       ELSE IF backend = "RedisCache" THEN RedisCache_clear_all
       ELSE InMemUnchanged /\ UNCHANGED <<ret, redis>>
    /\ svc' = Outcome("clear_all", None, "none",
                      Some(IF backend = "RedisCache" THEN env.net ELSE backend # "None"))
    /\ UNCHANGED <<backend, stats>>

\* a ping that finds the server gone swaps the backend for the in-process one
CacheService_ping_Fallback ==
    /\ svc' = Outcome("ping", None, "none",
                      Some(IF backend = "RedisCache" THEN RedisCache_ping
                           ELSE backend # "None"))
    /\ InMemUnchanged
    /\ backend' = IF NetFails THEN "InMemoryCache" ELSE backend
    /\ UNCHANGED <<ret, redis, stats>>

\* CacheService.ping
CacheService_ping ==
    /\ svc' = Outcome("ping", None, "none",
                      Some(IF backend = "RedisCache" THEN RedisCache_ping
                           ELSE backend # "None"))
    /\ InMemUnchanged
    /\ UNCHANGED <<ret, redis, backend, stats>>

\* CacheService.get_stats: the base figures, and the backend's when it gives them
CacheService_get_stats ==
    /\ svc' = Outcome("get_stats", None, "none",
                      Some([backend |-> backend, app_hits |-> stats.hits,
                            app_misses |-> stats.misses,
                            type |-> IF backend = "InMemoryCache" THEN "in-memory"
                                     ELSE IF backend = "RedisCache" /\ env.net THEN "redis"
                                     ELSE "none"]))
    /\ InMemUnchanged
    /\ UNCHANGED <<ret, redis, backend, stats>>

\* the stored keys an in-memory clear_pattern deletes
keys_to_delete(pattern) == {k \in CacheKeys(cache) : fnmatch(k, pattern)}

\* the body of clear_pattern, for the method `op` that runs it: the scan and
\* delete on redis_client are outside any try, so a network failure leaves the
\* method as an exception.  clear_pattern returns the count it reaches,
\* invalidate_culture_cache only logs it.
ClearPattern(pattern, op, arg) ==
    /\ IF backend = "RedisCache"
       THEN /\ IF env.net
               THEN LET keys == scan(key_prefix \o pattern)
                    IN  /\ redis' = RedisDel(keys)
                        /\ svc' = Outcome(op, arg, "none",
                                          IF op = "clear_pattern"
                                          THEN Some(Cardinality(keys)) ELSE None)
               ELSE /\ svc' = Outcome(op, arg, "ConnectionError", None)
                    /\ UNCHANGED redis
            /\ InMemUnchanged
            /\ UNCHANGED ret
       ELSE IF backend = "InMemoryCache"
       THEN LET gone == keys_to_delete(pattern)
            IN  /\ cache' = SelectSeq(cache, LAMBDA e : e.key \notin gone)
                /\ expiry' = [k \in DOMAIN expiry \ gone |-> expiry[k]]
                /\ lastSet' = [k \in DOMAIN lastSet |->
                                 IF k \in gone THEN NoSet ELSE lastSet[k]]
                /\ touch' = SelectSeq(touch, LAMBDA x : x \notin gone)
                /\ ret' = [op |-> "clear_pattern", key |-> Some(pattern),
                           val |-> Some(Cardinality(gone))]
                /\ svc' = Outcome(op, arg, "none",
                                  IF op = "clear_pattern"
                                  THEN Some(Cardinality(gone)) ELSE None)
                /\ UNCHANGED <<max_size, hits, misses, now, redis>>
       ELSE /\ svc' = Outcome(op, arg, "none",
                              IF op = "clear_pattern" THEN Some(0) ELSE None)
            /\ InMemUnchanged
            /\ UNCHANGED <<ret, redis>>
    /\ UNCHANGED <<backend, stats>>

\* CacheService.clear_pattern
CacheService_clear_pattern(pattern) ==
    ClearPattern(pattern, "clear_pattern", Some(pattern))

(***************************************************************************)
(* CacheService.generate_cache_key and the name-specific methods.  A       *)
(* keyword argument is [k, v]: k its name, v None or Some of an int or a   *)
(* str.                                                                    *)
(***************************************************************************)
KeyHashThreshold == 50

IntArg(n) == [t |-> "int", n |-> n, s |-> <<>>]
StrArg(s) == [t |-> "str", n |-> 0, s |-> s]

\* the characters of the model's strings, in code-point order
CodePoints ==
    <<"*", "0", "1", "2", "3", "4", "5", "6", "7", "8", "9", ":", "_",
      "a", "b", "c", "d", "e", "f", "g", "h", "i", "j", "k", "l", "m",
      "n", "o", "p", "q", "r", "s", "t", "u", "v", "w", "x", "y", "z">>

ord(c) == CHOOSE i \in 1..Len(CodePoints) : CodePoints[i] = c

RECURSIVE StrLess(_, _)
\* a < b on two str
StrLess(a, b) ==
    IF b = <<>> THEN FALSE
    ELSE IF a = <<>> THEN TRUE
    ELSE IF Head(a) = Head(b) THEN StrLess(Tail(a), Tail(b))
    ELSE ord(Head(a)) < ord(Head(b))

RECURSIVE InsertSorted(_, _)
InsertSorted(item, items) ==
    IF items = <<>> THEN <<item>>
    ELSE IF StrLess(item.k, Head(items).k) THEN <<item>> \o items
    ELSE <<Head(items)>> \o InsertSorted(item, Tail(items))

\* the keyword arguments left in the order the caller wrote them
sorted_AsGiven(items) == items

RECURSIVE sorted(_)
\* sorted(kwargs.items()): by name, the names of one call being distinct
sorted(items) ==
    IF items = <<>> THEN <<>> ELSE InsertSorted(Head(items), sorted(Tail(items)))

RECURSIVE IntToStr(_)
\* str(n) for n >= 0
IntToStr(n) ==
    IF n < 10 THEN <<CodePoints[n + 2]>>
    ELSE IntToStr(n \div 10) \o <<CodePoints[(n % 10) + 2]>>

\* f"{v}"
str(v) == IF v.t = "int" THEN IntToStr(v.n) ELSE v.s

RECURSIVE join_with(_, _)
\* sep.join(list)
join_with(sep, list) ==
    IF list = <<>> THEN <<>>
    ELSE IF Len(list) = 1 THEN list[1]
    ELSE list[1] \o sep \o join_with(sep, Tail(list))

\* "_".join(f"{k}:{v}" for k, v in params if v is not None)
param_str(params) ==
    LET present == SelectSeq(params, LAMBDA p : p.v # None)
    IN  join_with(<<"_">>, [i \in 1..Len(present) |->
                              present[i].k \o <<":">> \o str(present[i].v[1])])

HexDigits == <<"0", "1", "2", "3", "4", "5", "6", "7", "8", "9",
               "a", "b", "c", "d", "e", "f">>

RECURSIVE Checksum(_, _)
Checksum(text, i) ==
    IF text = <<>> THEN 0
    ELSE (ord(Head(text)) * i + Checksum(Tail(text), i + 1)) % 65536

\* hashlib.md5(text.encode()).hexdigest()[:8]: eight hexadecimal digits fixed by
\* the text alone.  The digest of the model is a checksum, not MD5.
md5_hexdigest_8(text) ==
    LET h == Checksum(text, 1)
    IN  <<"0", "0", "0", "0", HexDigits[(h \div 4096) + 1],
          HexDigits[((h \div 256) % 16) + 1], HexDigits[((h \div 16) % 16) + 1],
          HexDigits[(h % 16) + 1]>>

\* CacheService.generate_cache_key(prefix, **kwargs)
CacheService_generate_cache_key(prefix, kwargs) ==
    LET joined == param_str(sorted(kwargs))
    IN  IF Len(joined) > KeyHashThreshold
        THEN prefix \o <<"_">> \o md5_hexdigest_8(joined)
        ELSE IF joined # <<>> THEN prefix \o <<"_">> \o joined
        ELSE prefix

S_names == <<"n", "a", "m", "e", "s">>
S_culture == <<"c", "u", "l", "t", "u", "r", "e">>
S_gender == <<"g", "e", "n", "d", "e", "r">>
S_count == <<"c", "o", "u", "n", "t">>

\* self.generate_cache_key("names", culture=culture, gender=gender, count=count)
names_key(culture, gender, count) ==
    CacheService_generate_cache_key(S_names,
        << [k |-> S_culture, v |-> Some(StrArg(culture))],
           [k |-> S_gender, v |-> IF gender = None THEN None ELSE Some(StrArg(gender[1]))],
           [k |-> S_count, v |-> Some(IntArg(count))] >>)

\* CacheService.cache_generated_names
CacheService_cache_generated_names(culture, gender, names, ttl) ==
    CacheService_set(names_key(culture, gender, Len(names)), names, ttl)

\* CacheService.get_cached_names
CacheService_get_cached_names(culture, gender, count) ==
    CacheService_get(names_key(culture, gender, count))

\* pattern = f"names_culture:{culture}_*"
culture_pattern(culture) ==
    S_names \o <<"_">> \o S_culture \o <<":">> \o culture \o <<"_", "*">>

\* CacheService.invalidate_culture_cache
CacheService_invalidate_culture_cache(culture) ==
    ClearPattern(culture_pattern(culture), "invalidate_culture_cache", Some(culture))

VARIABLES
    kc          \* one generate_cache_key call: its arguments and the key it returned

NoKey == [pc |-> "idle", prefix |-> <<>>, kwargs |-> <<>>, key |-> None]

\* key = cache_service.generate_cache_key(prefix, **kwargs)
generate_cache_key_call ==
    /\ kc.pc = "idle"
    /\ kc' = [kc EXCEPT !.pc = "done",
                        !.key = Some(CacheService_generate_cache_key(kc.prefix, kc.kwargs))]

(***************************************************************************)
(* NameService.generate_names (app/services/name_service.py)               *)
(***************************************************************************)
MaxCount == 2        \* request.count ranges over 1..MaxCount

AttemptsPerName == 10
NamesTTL == 3600
MinScores == {60, 90}

Requests ==
    [culture : {"elvish"}, gender : {None}, count : 1..MaxCount, length : {None},
     include_pronunciation : {FALSE}, min_score : MinScores]

\* what the engine collaborator can hand back from one generate call
EngineOutputs ==
    { [exc |-> "none", name |-> <<"A", "l">>,
       syllables |-> << <<"a">>, <<"l">> >>, score |-> 90],
      [exc |-> "none", name |-> <<"A", "L">>,
       syllables |-> << <<"a">>, <<"l">> >>, score |-> 60],
      [exc |-> "none", name |-> <<"B", "e">>,
       syllables |-> << <<"b">>, <<"e">> >>, score |-> 60],
      fallback_name("elvish", None),
      [exc |-> "TypeError", name |-> <<>>, syllables |-> <<>>, score |-> 0] }

\* NameService._generate_cache_key
generate_cache_key(request) == <<"names", request.culture, request.gender, request.count>>

\* NameService._is_duplicate
is_duplicate(name, generated_names) ==
    \E i \in 1..Len(generated_names) : lower(generated_names[i].name) = lower(name)

\* roune(score, 3), called by generate_names and defined nowhere in the
\* sources: rounding to ndigits decimal places.  Scores are held in
\* hundredths, which three decimal places keep as they are.
roune(x, ndigits) == x

\* NameService._format_response: the names of the response
format_response(names, request) == names

max_attempts(request) == request.count * AttemptsPerName

\* if cached and len(cached) >= request.count
cache_hit_Longer(cached, request) ==
    cached # None /\ cached[1] # <<>> /\ Len(cached[1]) > request.count

cache_hit(cached, request) ==
    cached # None /\ cached[1] # <<>> /\ Len(cached[1]) >= request.count

\* while len(generated_names) < request.count and attempts < max_attempts
loop_goes_on_OneMore(generated_names, attempts, request) ==
    Len(generated_names) < request.count /\ attempts <= max_attempts(request)

loop_goes_on(generated_names, attempts, request) ==
    Len(generated_names) < request.count /\ attempts < max_attempts(request)

\* if score >= request.min_score: if not self._is_duplicate(name, generated_names)
keeps_Any(out, generated_names, request) == out.score >= request.min_score

keeps(out, generated_names, request) ==
    out.score >= request.min_score /\ ~is_duplicate(out.name, generated_names)

\* the end of _split_into_syllables: what is left in current goes to the last
\* syllable, or makes the only one
split_rest(current, syllables) ==
    IF current = <<>> THEN syllables
    ELSE IF syllables # <<>>
    THEN [syllables EXCEPT ![Len(syllables)] = @ \o current]
    ELSE <<current>>

RECURSIVE split_from(_, _, _, _)
\* the loop of _split_into_syllables from index i (counted from 0) on: char
\* is taken from name.lower(), the two characters after it from name; the
\* character added to a closed syllable is met again by the next pass
split_from(name, i, current, syllables) ==
    IF i = Len(name) THEN split_rest(current, syllables)
    ELSE LET char == lower(name)[i + 1]
             grown == current \o <<char>>
         IN  IF /\ char \in {"a", "e", "i", "o", "u", "y"}
                /\ i + 1 < Len(name)
                /\ name[i + 2] \notin {"a", "e", "i", "o", "u", "y"}
                /\ i + 2 < Len(name)
                /\ name[i + 3] \in {"a", "e", "i", "o", "u", "y"}
             THEN split_from(name, i + 1, <<>>, Append(syllables, grown \o <<name[i + 2]>>))
             ELSE split_from(name, i + 1, grown, syllables)

\* NameService._split_into_syllables
split_into_syllables(name) == split_from(name, 0, <<>>, <<>>)

\* NameService._generate_pronunciation: '-'.join(syllables).lower()
generate_pronunciation(name) == lower(join_with(<<"-">>, split_into_syllables(name)))

\* GeneratedName(name=..., pronunciation=..., syllables=..., score=..., ...)
GeneratedName(out, request) ==
    [py_type |-> "GeneratedName",
     name |-> out.name,
     pronunciation |-> IF request.include_pronunciation
                       THEN Some(generate_pronunciation(out.name)) ELSE None,
     syllables |-> out.syllables,
     score |-> roune(out.score, 3), culture |-> request.culture,
     gender |-> request.gender]

VARIABLES
    orch,       \* the generate_names call in progress, or the last one finished
    prev        \* history: the call before it, if it returned at least count names

NoRequest == [culture |-> "", gender |-> None, count |-> 0, length |-> None,
              include_pronunciation |-> FALSE, min_score |-> 0]

NoCall == [pc |-> "idle", request |-> NoRequest, warm |-> FALSE, hit |-> FALSE,
           generated_names |-> <<>>, attempts |-> 0, dup_seen |-> FALSE,
           store_failed |-> FALSE, exc |-> "none", names |-> <<>>]

NoPrev == [valid |-> FALSE, request |-> NoRequest, names |-> <<>>]

\* history: the entry of key is stored and its TTL has not run out
Live(key) ==
    /\ backend = "InMemoryCache"
    /\ key \in CacheKeys(cache)
    /\ (key \in DOMAIN expiry => now < expiry[key])

\* lines 23-33: the cache lookup and the return of a hit
generate_names_call(request) ==
    /\ orch.pc \in {"idle", "done"}
    /\ CacheService_get(generate_cache_key(request))
    /\ orch' = IF cache_hit(svc'.val, request)
               THEN [NoCall EXCEPT
                       !.pc = "done", !.request = request, !.hit = TRUE,
                       !.warm = Live(generate_cache_key(request)),
                       !.names = format_response(
                                    SubSeq(svc'.val[1], 1, request.count), request)]
               ELSE [NoCall EXCEPT
                       !.pc = "loop", !.request = request,
                       !.warm = Live(generate_cache_key(request))]
    /\ prev' = IF orch.pc = "done" /\ orch.exc = "none"
                  /\ Len(orch.names) >= orch.request.count
               THEN [valid |-> TRUE, request |-> orch.request, names |-> orch.names]
               ELSE NoPrev

\* self._store_name(name, request, syllables, score), called by
\* generate_names and defined nowhere in the sources: the report of a kept
\* name to the persistence collaborator returns (TRUE) or raises (FALSE)
store_name_outcomes == BOOLEAN

\* lines 39-61: one pass of the loop, around one engine call and, for a name
\* that is kept, one self._store_name(...) call; the call at line 59 is
\* inside no try
generate_names_attempt(out, stored) ==
    /\ orch.pc = "loop"
    /\ loop_goes_on(orch.generated_names, orch.attempts, orch.request)
    /\ orch' = IF out.exc # "none"
               THEN [orch EXCEPT !.pc = "done", !.exc = out.exc]
               ELSE IF keeps(out, orch.generated_names, orch.request) /\ ~stored
               THEN [orch EXCEPT
                       !.generated_names = Append(@, GeneratedName(out, orch.request)),
                       !.pc = "done", !.store_failed = TRUE,
                       !.exc = "PersistenceError"]
               ELSE IF keeps(out, orch.generated_names, orch.request)
               THEN [orch EXCEPT
                       !.generated_names = Append(@, GeneratedName(out, orch.request)),
                       !.attempts = @ + 1]
               ELSE [orch EXCEPT
                       !.attempts = @ + 1,
                       !.dup_seen = @ \/ (out.score >= orch.request.min_score)]
    /\ UNCHANGED <<cacheVars, backend, stats, prev, redis, svc>>

\* lines 63-69: the write-back and the return of a miss
generate_names_return ==
    /\ orch.pc = "loop"
    /\ ~loop_goes_on(orch.generated_names, orch.attempts, orch.request)
    /\ CacheService_set(generate_cache_key(orch.request), orch.generated_names,
                        Some(NamesTTL))
    /\ orch' = [orch EXCEPT !.pc = "done", !.names = orch.generated_names]
    /\ UNCHANGED prev

\* history: the engine calls of the call in orch (a call that raised never
\* reached `attempts += 1`)
EngineCalls == orch.attempts + (IF orch.pc = "done" /\ orch.exc # "none" THEN 1 ELSE 0)

(***************************************************************************)
(* Specifications.  Each lets one component run and holds the others in    *)
(* their initial state.                                                    *)
(***************************************************************************)
(***************************************************************************)
(* The MVP application (src/main.py): NameGenerator over NAMES_DB and the  *)
(* POST /generate handler.  A response is [status, names, total_count].    *)
(***************************************************************************)
CountLimit == 50

\* NAMES_DB, cut down to two cultures and at most two names a list
NAMES_DB ==
    [generic |-> [male |-> <<"Alexander", "Benjamin">>,
                  female |-> <<"Alexandra">>,
                  unisex |-> <<"Alex">>],
     elvish |-> [male |-> <<"Elrond">>,
                 female |-> <<"Arwen", "Idril">>]]

\* Python's `a or b` on an Optional str: None and "" are falsy
str_or(a, b) == IF a = None \/ a = Some("") THEN b ELSE a[1]

\* Python's `a or b` on an Optional int: None and 0 are falsy
int_or(a, b) == IF a = None \/ a = Some(0) THEN b ELSE a[1]

\* NameGenerator.generate_name: each NameResponse random.choice can lead to, or
\* the ValueError of an unknown culture or gender
generate_name(culture, gender) ==
    IF culture \notin DOMAIN NAMES_DB
    THEN {[exc |-> "ValueError", val |-> None]}
    ELSE LET culture_data == NAMES_DB[culture]
             genders == IF gender = None THEN DOMAIN culture_data ELSE {gender[1]}
         IN  UNION {IF g \notin DOMAIN culture_data
                    THEN {[exc |-> "ValueError", val |-> None]}
                    ELSE {[exc |-> "none",
                           val |-> Some([name |-> culture_data[g][i], culture |-> culture,
                                         gender |-> Some(g)])] :
                             i \in 1..Len(culture_data[g])} :
                      g \in genders}

RECURSIVE names_loop(_, _, _)
\* for _ in range(count): names.append(self.generate_name(culture, gender))
names_loop(culture, gender, count) ==
    IF count <= 0 THEN {[exc |-> "none", val |-> <<>>]}
    ELSE UNION {IF first.exc # "none" THEN {[exc |-> first.exc, val |-> <<>>]}
                ELSE {IF rest.exc # "none" THEN rest
                      ELSE [exc |-> "none", val |-> <<first.val[1]>> \o rest.val] :
                        rest \in names_loop(culture, gender, count - 1)} :
                  first \in generate_name(culture, gender)}

\* NameGenerator.generate_multiple_names
generate_multiple_names(culture, gender, count) ==
    IF count < 1 \/ count > CountLimit
    THEN {[exc |-> "ValueError", val |-> <<>>]}
    ELSE names_loop(culture, gender, count)

VARIABLES
    mvp         \* the last POST /generate: the request and the response

NoMvp == [pc |-> "idle", request |-> [culture |-> None, gender |-> None, count |-> None],
          status |-> 0, names |-> <<>>, total_count |-> 0]

\* POST /generate: a ValueError becomes HTTP 400
post_generate(request) ==
    \E r \in generate_multiple_names(str_or(request.culture, "generic"),
                                     request.gender,
                                     int_or(request.count, 1)) :
        mvp' = IF r.exc = "ValueError"
               THEN [pc |-> "done", request |-> request, status |-> 400,
                     names |-> <<>>, total_count |-> 0]
               ELSE [pc |-> "done", request |-> request, status |-> 200,
                     names |-> r.val, total_count |-> Len(r.val)]

(***************************************************************************)
(* Concurrent callers of one cache: InMemoryCache.lock, and                *)
(* CacheService.get_or_generate a step at a time                           *)
(***************************************************************************)
MaxCallers == 2      \* callers that are inside a cache method at one time

Callers == 1..MaxCallers

VARIABLES
    lock,       \* InMemoryCache.lock: None when free, else Some of its holder
    task        \* per caller: the method it is in and how far it got

NoTask == [pc |-> "idle", op |-> "none", key |-> None, val |-> None]

\* a caller enters one of these methods and arrives at its `with self.lock:`
Call(c) ==
    /\ task[c].pc = "idle"
    /\ task' = [task EXCEPT ![c] = [NoTask EXCEPT !.pc = "waiting"]]
    /\ UNCHANGED lock

\* every caller gets the lock at once
LockFree_Always(l) == TRUE

\* Lock.acquire returns only when no one holds the lock
LockFree(l) == l = None

\* `with self.lock:` is entered
Acquire(c) ==
    /\ task[c].pc = "waiting"
    /\ LockFree(lock)
    /\ lock' = Some(c)
    /\ task' = [task EXCEPT ![c].pc = "inside"]

\* the body of the with block has run and leaving it releases the lock;
\* `found` is what the caller remembers of the call it has finished
Release(c, found) ==
    /\ task[c].pc = "inside"
    /\ lock' = None
    /\ task' = [task EXCEPT ![c] = found]

\* the callers that are inside a with block
Inside == {c \in Callers : task[c].pc = "inside"}

\* CacheService.get_or_generate up to its first await that can suspend: the
\* lookup, and the return of a cached value
get_or_generate_lookup(c, key) ==
    /\ task[c].pc = "idle"
    /\ CacheService_get(key)
    /\ task' = [task EXCEPT ![c] =
                  [pc |-> IF svc'.val # None THEN "returned" ELSE "generating",
                   op |-> "get_or_generate", key |-> Some(key), val |-> svc'.val]]
    /\ UNCHANGED lock

\* value = await generator_func(): the generator has been invoked and, when
\* the caller is resumed, has produced `value`
get_or_generate_generate(c, value) ==
    /\ task[c].pc = "generating"
    /\ task' = [task EXCEPT ![c].pc = "generated", ![c].val = Some(value)]
    /\ UNCHANGED lock

\* await self.set(key, value, ttl); return value
get_or_generate_store(c, ttl) ==
    /\ task[c].pc = "generated"
    /\ CacheService_set(task[c].key[1], task[c].val[1], ttl)
    /\ task' = [task EXCEPT ![c].pc = "returned"]
    /\ UNCHANGED lock

\* the caller has its value and goes on
get_or_generate_done(c) ==
    /\ task[c].pc = "returned"
    /\ task' = [task EXCEPT ![c] = NoTask]
    /\ UNCHANGED lock

(***************************************************************************)
(* CultureLoader (scripts/culture_loader.py).  A culture file is           *)
(* <code>.json and holds the culture of that code; `ok` says whether its   *)
(* contents parse and pass _validate_culture.  A pattern is a dict with a  *)
(* pattern string and a weight.                                            *)
(***************************************************************************)
CultureCodes == {"elv"}

Positions == {"initial", "medial", "final"}

Pat(p, w) == [pattern |-> p, weight |-> w]

\* no patterns but the required positions
NoPatterns == [pos \in Positions |-> <<>>]

Culture(ok, base, byGender) ==
    [ok |-> ok, syllable_patterns |-> base, gender_patterns |-> byGender]

\* the contents a culture file can have between two loads
CultureContents ==
    {Culture(TRUE,
             [NoPatterns EXCEPT !["initial"] = <<Pat("CV", 1), Pat("CVC", 1)>>,
                                !["final"] = <<Pat("VC", 1)>>],
             [g \in {"female"} |->
                [pos \in {"initial"} |-> <<Pat("V", 2), Pat("CV", 3)>>]]),
     Culture(TRUE,
             [NoPatterns EXCEPT !["initial"] = <<Pat("CVC", 1)>>,
                                !["final"] = <<Pat("CV", 1), Pat("V", 1)>>],
             [g \in {"female"} |-> [pos \in {"initial"} |-> <<Pat("CVC", 2)>>]]),
     Culture(TRUE,
             [NoPatterns EXCEPT !["initial"] = <<Pat("VC", 1)>>],
             [g \in {} |-> <<>>]),
     Culture(FALSE, NoPatterns, [g \in {} |-> <<>>])}

\* the data directory as a first start finds it: CultureLoader.__init__
\* creates it when it is missing, and it holds no file yet
CultureFiles == [code \in CultureCodes |-> None]

VARIABLES
    disk,       \* the culture directory: per code, None or Some of the file's contents
    loader      \* the CultureLoader: _cultures, the lru_cache of
                \* get_weighted_pattern, and its last call

NoLoader ==
    [cultures |-> [code \in {} |-> <<>>], memo |-> [args \in {} |-> <<>>],
     last |-> [op |-> "none", args |-> <<>>, val |-> <<>>]]

\* the files of the directory that load and validate
Loadable(d) == {code \in DOMAIN d : d[code] # None /\ d[code][1].ok}

\* load_all_cultures: self._cultures[code] = culture_data for every good file
LoadedOver(cultures, d) ==
    [code \in DOMAIN cultures \cup Loadable(d) |->
        IF code \in Loadable(d) THEN d[code][1] ELSE cultures[code]]

\* culture.get("gender_patterns", {}).get(gender, {}).get(position, [])
gender_patterns(culture, pos, gender) ==
    IF gender \in DOMAIN culture.gender_patterns
       /\ pos \in DOMAIN culture.gender_patterns[gender]
    THEN culture.gender_patterns[gender][pos]
    ELSE <<>>

\* culture.get("syllable_patterns", {}).get(position, [])
base_patterns(culture, pos) ==
    IF pos \in DOMAIN culture.syllable_patterns
    THEN culture.syllable_patterns[pos]
    ELSE <<>>

\* the pattern strings of a list
pattern_strings(list) == {list[i].pattern : i \in 1..Len(list)}

\* [p for p in patterns if p["pattern"] not in pattern_strings]
Remaining(base, overriding) ==
    SelectSeq(base, LAMBDA p : p.pattern \notin pattern_strings(overriding))

\* CultureLoader.get_syllable_patterns, over the loaded cultures; gender is
\* None or Some of a gender
get_syllable_patterns(cultures, code, pos, gender) ==
    IF code \notin DOMAIN cultures THEN <<>>
    ELSE LET culture == cultures[code]
             base == base_patterns(culture, pos)
             over == IF gender = None THEN <<>>
                     ELSE gender_patterns(culture, pos, gender[1])
         IN  IF over # <<>> THEN Remaining(base, over) \o over ELSE base

\* random.choices(pattern_list, weights=weights)[0]: any pattern of positive weight
choices(list) == {list[i].pattern : i \in {j \in 1..Len(list) : list[j].weight > 0}}

\* the body of get_weighted_pattern: None for an empty list, else a draw
weighted_pattern(cultures, args) ==
    LET patterns == get_syllable_patterns(cultures, args[1], args[2], args[3])
    IN  IF patterns = <<>> THEN {None} ELSE {Some(p) : p \in choices(patterns)}

\* the body runs on every call
Memoized_Never(memo, args) == FALSE

\* @lru_cache(maxsize=128): a call with arguments seen before returns the
\* remembered result and does not run the body
Memoized(memo, args) == args \in DOMAIN memo

CultureLoader_load_all_cultures ==
    /\ loader' = [loader EXCEPT
                    !.cultures = LoadedOver(@, disk),
                    !.last = [op |-> "load_all_cultures", args |-> <<>>, val |-> <<>>]]
    /\ UNCHANGED disk

\* the file of the code is read again; a missing or bad file changes nothing
CultureLoader_reload_culture(code) ==
    /\ loader' = [loader EXCEPT
                    !.cultures = IF code \in Loadable(disk)
                                 THEN LoadedOver(@, [c \in {code} |-> disk[code]])
                                 ELSE @,
                    !.last = [op |-> "reload_culture", args |-> <<code>>,
                              val |-> <<code \in Loadable(disk)>>]]
    /\ UNCHANGED disk

\* self._cultures.clear(), then load_all_cultures
CultureLoader_reload_all_cultures ==
    /\ loader' = [loader EXCEPT
                    !.cultures = LoadedOver([code \in {} |-> <<>>], disk),
                    !.last = [op |-> "reload_all_cultures", args |-> <<>>, val |-> <<>>]]
    /\ UNCHANGED disk

CultureLoader_get_syllable_patterns(code, pos, gender) ==
    /\ loader' = [loader EXCEPT
                    !.last = [op |-> "get_syllable_patterns",
                              args |-> <<code, pos, gender>>,
                              val |-> get_syllable_patterns(loader.cultures, code,
                                                            pos, gender)]]
    /\ UNCHANGED disk

CultureLoader_get_weighted_pattern(code, pos, gender) ==
    LET args == <<code, pos, gender>>
    IN  /\ IF Memoized(loader.memo, args)
           THEN loader' = [loader EXCEPT
                             !.last = [op |-> "get_weighted_pattern", args |-> args,
                                       val |-> loader.memo[args]]]
           ELSE \E result \in weighted_pattern(loader.cultures, args) :
                    loader' = [loader EXCEPT
                                 !.memo = [a \in DOMAIN @ \cup {args} |->
                                             IF a = args THEN result ELSE @[a]],
                                 !.last = [op |-> "get_weighted_pattern",
                                           args |-> args, val |-> result]]
        /\ UNCHANGED disk

\* a culture file is written, replaced or removed while the process runs
EditFile(code, contents) ==
    /\ disk' = [disk EXCEPT ![code] = contents]
    /\ UNCHANGED loader

vars == <<cache, expiry, max_size, hits, misses, now, ret, lastSet, touch,
          sc, gen, syl, redis, env, settings, backend, stats, svc, kc, orch, prev, mvp,
          lock, task, disk, loader>>

\* the callers of the cache and the culture loader
extVars == <<lock, task, disk, loader>>

\* the engine, the orchestrator and the endpoint
engineVars == <<sc, gen, syl, kc, orch, prev, mvp>>

\* what surrounds the service, and the calls that are no part of it
worldVars == <<env, settings, kc, syl, mvp, extVars>>

svcVars == <<redis, backend, stats, svc>>

restVars == <<sc, gen, svcVars, worldVars, orch, prev>>

\* InMemoryCache.__init__, for the keys the run will use
InitStore(keys, sizes) ==
    /\ cache = <<>>
    /\ expiry = EmptyDict
    /\ max_size \in sizes
    /\ hits = 0
    /\ misses = 0
    /\ now = 0
    /\ ret = NoRet
    /\ lastSet = [k \in keys |-> NoSet]
    /\ touch = <<>>

\* the settings object of a deployment that names every cache attribute
FullSettings ==
    [cache_disabled |-> Some(FALSE), use_redis |-> FALSE, redis_key_prefix |-> Some(<<"n", ":">>),
     cache_max_size |-> Some(MaxCap), cache_ttl |-> SettingsCacheTTL]

\* no engine, orchestrator or MVP call made yet
InitCalls ==
    /\ sc = NoScore
    /\ gen = NoGen
    /\ syl = NoSyl
    /\ orch = NoCall
    /\ prev = NoPrev
    /\ mvp = NoMvp
    /\ lock = None
    /\ task = [c \in Callers |-> NoTask]
    /\ disk = CultureFiles
    /\ loader = NoLoader

\* CacheService.__init__, next to an empty Redis server
InitService ==
    /\ redis = EmptyDict
    /\ stats = [hits |-> 0, misses |-> 0]
    /\ svc = NoSvc

InitRest ==
    /\ InitCalls
    /\ InitService
    /\ env = [redis_pkg |-> TRUE, net |-> TRUE]
    /\ settings = FullSettings
    /\ kc = NoKey

\* the in-process cache on its own
InitCache == InitStore(Keys, 1..MaxCap) /\ InitRest /\ backend = "InMemoryCache"

CacheGet == \E k \in Keys : InMemoryCache_get(k) /\ UNCHANGED restVars
CacheSet ==
    \E k \in Keys, v \in Values, ttl \in TTLs :
        InMemoryCache_set(k, v, ttl) /\ UNCHANGED restVars
CacheDelete == \E k \in Keys : InMemoryCache_delete(k) /\ UNCHANGED restVars
CacheClearAll == InMemoryCache_clear_all /\ UNCHANGED restVars
CacheTick == Tick(1) /\ UNCHANGED restVars

NextCache == CacheGet \/ CacheSet \/ CacheDelete \/ CacheClearAll \/ CacheTick

SpecCache == InitCache /\ [][NextCache]_vars

\* the scorer on its own, over every name of at most MaxNameLen letters
MaxNameLen == 3

ScoreAlphabet == {"a", "y", "t", "h", "r", "n", "g", "E"}

\* the names of test_scores_difficult_names_low, every five-letter name over
\* three consonants, and names that hold a difficult cluster more than once
DifficultNames ==
    {<<"X", "k", "r", "t", "h">>, <<"Z", "z", "z", "n", "g">>,
     <<"t", "h", "r", "a", "t", "h", "r", "a">>,
     <<"s", "t", "r", "a", "t", "h", "r", "a", "y">>}
        \cup [1..5 -> {"t", "h", "r"}]

NameInputs == UNION {[1..n -> ScoreAlphabet] : n \in 0..MaxNameLen} \cup DifficultNames

InitScorer == InitStore(Keys, {MaxCap}) /\ InitRest /\ backend = "InMemoryCache"

ScoreCall ==
    \E name \in NameInputs, culture \in {None, Some("elvish"), Some("dwarven")} :
        /\ score_call(name, IF culture = None THEN "None" ELSE culture[1])
        /\ UNCHANGED <<cacheVars, gen, svcVars, worldVars, orch, prev>>

NextScorer == ScoreCall

SpecScorer == InitScorer /\ [][NextScorer]_vars

\* the generation engine on its own
InitEngine == InitScorer

GenerateCall ==
    \E culture \in Cultures, gender \in Genders, length \in Lengths,
       attempts \in 0..MaxAttempts :
        /\ generate_call(culture, gender, length, attempts)
        /\ UNCHANGED <<cacheVars, sc, svcVars, worldVars, orch, prev>>

GenerateAttempt ==
    generate_attempt /\ UNCHANGED <<cacheVars, sc, svcVars, worldVars, orch, prev>>

GenerateFallback ==
    generate_fallback /\ UNCHANGED <<cacheVars, sc, svcVars, worldVars, orch, prev>>

NextEngine == GenerateCall \/ GenerateAttempt \/ GenerateFallback

SpecEngine == InitEngine /\ [][NextEngine]_vars

\* the syllable assembly on its own, over every pattern of at most
\* MaxPatternLen symbols and over templates that give, leave out or empty
\* each pool
MaxPatternLen == 2

PatternSymbols == {"C", "V", "N", "L", "'"}

PatternInputs == UNION {[1..n -> PatternSymbols] : n \in 0..MaxPatternLen}

TemplateInputs ==
    [consonants : {Some(<<>>), Some(<<"l", "n">>)},
     vowels : {None, Some(<<>>), Some(<<"a", "e">>)},
     nasals : {None, Some(<<>>)},
     liquids : {None, Some(<<"r">>)}]

InitSyllable == InitScorer

SyllableCall ==
    \E pattern \in PatternInputs, template \in TemplateInputs :
        /\ syllable_call(pattern, template)
        /\ UNCHANGED <<cacheVars, sc, gen, svcVars, env, settings, kc, mvp, orch, prev, extVars>>

NextSyllable == SyllableCall

SpecSyllable == InitSyllable /\ [][NextSyllable]_vars

\* the orchestrator over the cache service, one request after the other
InitOrch ==
    /\ InitStore({generate_cache_key(r) : r \in Requests}, 1..MaxCap)
    /\ InitRest
    /\ backend \in {"InMemoryCache", "NoOpCache"}

GenerateNamesCall ==
    \E request \in Requests : generate_names_call(request) /\ UNCHANGED <<sc, gen, worldVars>>

GenerateNamesAttempt ==
    \E out \in EngineOutputs, stored \in store_name_outcomes :
        generate_names_attempt(out, stored) /\ UNCHANGED <<sc, gen, worldVars>>

GenerateNamesReturn == generate_names_return /\ UNCHANGED <<sc, gen, worldVars>>

OrchTick == orch.pc # "loop" /\ Tick(NamesTTL) /\ UNCHANGED restVars

NextOrch == GenerateNamesCall \/ GenerateNamesAttempt \/ GenerateNamesReturn \/ OrchTick

SpecOrch == InitOrch /\ [][NextOrch]_vars

\* the orchestrator over each backend initialize can install, the settings
\* being those that make initialize install it
InitWriteBack ==
    /\ InitStore({generate_cache_key(r) : r \in Requests}, {MaxCap})
    /\ InitCalls
    /\ InitService
    /\ env = [redis_pkg |-> TRUE, net |-> TRUE]
    /\ backend \in {"InMemoryCache", "RedisCache", "NoOpCache"}
    /\ settings = [FullSettings EXCEPT !.use_redis = (backend = "RedisCache"),
                                       !.cache_disabled = Some(backend = "NoOpCache")]
    /\ kc = NoKey

SpecWriteBack == InitWriteBack /\ [][NextOrch]_vars

\* the orchestrator asked for names with and without a pronunciation guide
GuideRequests ==
    [culture : {"elvish"}, gender : {None}, count : 1..MaxCount, length : {None},
     include_pronunciation : BOOLEAN, min_score : {60}]

\* names the engine can hand back: those of test_scores_pronounceable_names_high
\* and a short one
GuideOutputs ==
    { [exc |-> "none", name |-> <<"L", "y", "r", "a">>,
       syllables |-> << <<"l", "y">>, <<"r", "a">> >>, score |-> 90],
      [exc |-> "none", name |-> <<"E", "l", "e", "n", "a">>,
       syllables |-> << <<"e">>, <<"l", "e">>, <<"n", "a">> >>, score |-> 90],
      [exc |-> "none", name |-> <<"A", "l">>,
       syllables |-> << <<"a">>, <<"l">> >>, score |-> 90] }

InitGuide ==
    /\ InitStore({generate_cache_key(r) : r \in GuideRequests}, {MaxCap})
    /\ InitRest
    /\ backend = "InMemoryCache"

GuideCall ==
    \E request \in GuideRequests :
        generate_names_call(request) /\ UNCHANGED <<sc, gen, worldVars>>

GuideAttempt ==
    \E out \in GuideOutputs :
        generate_names_attempt(out, TRUE) /\ UNCHANGED <<sc, gen, worldVars>>

NextGuide == GuideCall \/ GuideAttempt \/ GenerateNamesReturn

SpecGuide == InitGuide /\ [][NextGuide]_vars

\* generate_cache_key on its own, over keyword arguments in every order
elvish == <<"e", "l", "v", "i", "s", "h">>

\* a culture code that brings "culture:<code>" to the threshold exactly
LongCulture == [i \in 1..(KeyHashThreshold - Len(S_culture) - 1) |-> "x"]

KeywordArgs ==
    {[k |-> S_culture, v |-> x] :
        x \in {None, Some(StrArg(elvish)), Some(StrArg(LongCulture))}}
    \cup {[k |-> S_gender, v |-> x] : x \in {None, Some(StrArg(<<"m", "a", "l", "e">>))}}
    \cup {[k |-> S_count, v |-> x] : x \in {Some(IntArg(1)), Some(IntArg(12))}}

\* **kwargs: no name twice, in the order the caller wrote them
KwargLists ==
    {kw \in UNION {[1..n -> KeywordArgs] : n \in 0..3} :
        \A i, j \in 1..Len(kw) : i # j => kw[i].k # kw[j].k}

InitKey ==
    /\ InitStore(Keys, {MaxCap})
    /\ InitCalls
    /\ InitService
    /\ env = [redis_pkg |-> TRUE, net |-> TRUE]
    /\ settings = FullSettings
    /\ backend = "InMemoryCache"
    /\ kc \in {[NoKey EXCEPT !.prefix = prefix, !.kwargs = kw] :
                 prefix \in {S_names, S_culture}, kw \in KwargLists}

GenerateCacheKeyCall ==
    /\ generate_cache_key_call
    /\ UNCHANGED <<cacheVars, sc, gen, syl, svcVars, env, settings, orch, prev, mvp, extVars>>

NextKey == GenerateCacheKeyCall

SpecKey == InitKey /\ [][NextKey]_vars

\* CacheService.initialize under every configuration: the attributes the
\* settings object has or lacks, the redis package, the server
SettingsObjects ==
    {[cache_disabled |-> d, use_redis |-> u, redis_key_prefix |-> p,
      cache_max_size |-> m, cache_ttl |-> SettingsCacheTTL] :
        d \in {None, Some(FALSE), Some(TRUE)}, u \in BOOLEAN,
        p \in {None, Some(<<"n", ":">>)}, m \in {None, Some(1), Some(MaxCap)}}

InitInit ==
    /\ InitStore(Keys, {MaxCap})
    /\ InitCalls
    /\ InitService
    /\ kc = NoKey
    /\ backend = "None"
    /\ settings \in SettingsObjects
    /\ env \in [redis_pkg : BOOLEAN, net : BOOLEAN]

callVars == <<engineVars, extVars>>

SvcInitialize == CacheService_initialize /\ UNCHANGED <<callVars, env, settings>>
SvcPing == CacheService_ping /\ UNCHANGED <<callVars, env, settings>>
SvcGetStats == CacheService_get_stats /\ UNCHANGED <<callVars, env, settings>>

NextInit == SvcInitialize \/ SvcPing \/ SvcGetStats

SpecInit == InitInit /\ [][NextInit]_vars

\* the cache service in use: name lists cached, read and invalidated, beside
\* the general operations, while the clock and the Redis server go their way
male == <<"m", "a", "l", "e">>

dwarven == <<"d", "w", "a", "r", "v", "e", "n">>

NameEntries ==
    {[culture |-> elvish, gender |-> None, names |-> <<[name |-> "v1"]>>],
     [culture |-> elvish, gender |-> Some(male),
      names |-> <<[name |-> "v1"], [name |-> "v2"]>>]}

\* a key a caller of set can choose: it starts like the invalidation pattern
PlainKey == S_names \o <<"_">> \o S_culture \o <<":">> \o elvish \o <<"_", "x">>

ServiceKeys ==
    {names_key(e.culture, e.gender, Len(e.names)) : e \in NameEntries} \cup {PlainKey}

Patterns == {S_names \o <<"_", "*">>, S_names \o <<"_">> \o S_count \o <<":", "1", "_", "*">>}

InitSvc ==
    /\ InitStore(ServiceKeys, {MaxCap})
    /\ InitCalls
    /\ InitService
    /\ kc = NoKey
    /\ backend = "None"
    /\ settings \in {[FullSettings EXCEPT !.use_redis = u] : u \in BOOLEAN}
    /\ env = [redis_pkg |-> TRUE, net |-> TRUE]

SvcStart == CacheService_initialize /\ UNCHANGED <<callVars, env, settings>>
SvcGet == \E k \in ServiceKeys : CacheService_get(k) /\ UNCHANGED <<callVars, env, settings>>
SvcSet ==
    /\ CacheService_set(PlainKey, <<[name |-> "v2"]>>, Some(MaxTTL))
    /\ UNCHANGED <<callVars, env, settings>>
SvcDelete == \E k \in ServiceKeys : CacheService_delete(k) /\ UNCHANGED <<callVars, env, settings>>
SvcClearAll == CacheService_clear_all /\ UNCHANGED <<callVars, env, settings>>
SvcClearPattern ==
    \E pattern \in Patterns :
        CacheService_clear_pattern(pattern) /\ UNCHANGED <<callVars, env, settings>>
SvcCacheNames ==
    \E e \in NameEntries :
        /\ CacheService_cache_generated_names(e.culture, e.gender, e.names, None)
        /\ UNCHANGED <<callVars, env, settings>>
SvcGetCachedNames ==
    \E e \in NameEntries :
        /\ CacheService_get_cached_names(e.culture, e.gender, Len(e.names))
        /\ UNCHANGED <<callVars, env, settings>>
SvcInvalidate ==
    \E culture \in {elvish, dwarven} :
        /\ CacheService_invalidate_culture_cache(culture)
        /\ UNCHANGED <<callVars, env, settings>>
SvcStatus ==
    /\ CacheService_ping \/ CacheService_get_stats
    /\ UNCHANGED <<callVars, env, settings>>
SvcTick ==
    /\ Tick(1)
    /\ redis' = RedisExpire(now + 1)
    /\ UNCHANGED <<callVars, backend, stats, svc, env, settings>>

\* the Redis server goes away or comes back: only redis_client sees it
NetChange ==
    /\ backend = "RedisCache"
    /\ env' = [env EXCEPT !.net = ~@]
    /\ UNCHANGED <<cacheVars, callVars, svcVars, settings>>

NextSvc ==
    \/ SvcStart \/ SvcGet \/ SvcSet \/ SvcDelete \/ SvcClearAll \/ SvcClearPattern
    \/ SvcCacheNames \/ SvcGetCachedNames \/ SvcInvalidate \/ SvcStatus
    \/ SvcTick \/ NetChange

SpecSvc == InitSvc /\ [][NextSvc]_vars

\* the MVP endpoint: one POST /generate after the other
MaxMvpCount == 2     \* counts up to this are asked of every culture and gender

\* the request bodies: every culture, gender and small count, and the counts
\* at the limit for lists of one name
NameRequests ==
    [culture : {None, Some(""), Some("generic"), Some("elvish"), Some("orcish")},
     gender : {None, Some("male"), Some("female"), Some("unisex")},
     count : {None} \cup {Some(c) : c \in (-1)..MaxMvpCount}]
    \cup [culture : {Some("generic"), Some("elvish")}, gender : {Some("unisex")},
          count : {Some(CountLimit), Some(CountLimit + 1)}]

InitMvp ==
    /\ InitStore(Keys, {MaxCap})
    /\ InitRest
    /\ backend = "InMemoryCache"

PostGenerate ==
    \E request \in NameRequests :
        /\ post_generate(request)
        /\ UNCHANGED <<cacheVars, sc, gen, syl, svcVars, env, settings, kc, orch, prev, extVars>>

NextMvp == PostGenerate

SpecMvp == InitMvp /\ [][NextMvp]_vars

\* concurrent callers of one in-process cache: each call waits for the lock,
\* runs its body and releases.  Which method was called, and with which
\* arguments, plays no part before the body runs, so both are drawn there.
LockPatterns == {<<"a", "*">>}

LockKeys == {<<"a", "1">>, <<"b", "1">>}

LockValues == {"v1"}

InitLock == InitStore(LockKeys, 1..MaxCap) /\ InitRest /\ backend = "InMemoryCache"

lockRest == <<engineVars, env, settings, disk, loader>>

\* history: the set finds its key in a store that is full
FoundInFull(k) == k \in CacheKeys(cache) /\ Len(cache) >= max_size

LockCall == \E c \in Callers : Call(c) /\ UNCHANGED <<cacheVars, svcVars, lockRest>>
LockAcquire == \E c \in Callers : Acquire(c) /\ UNCHANGED <<cacheVars, svcVars, lockRest>>
LockedGet ==
    \E c \in Callers, k \in LockKeys :
        Release(c, NoTask) /\ InMemoryCache_get(k) /\ UNCHANGED <<svcVars, lockRest>>
LockedSet ==
    \E c \in Callers, k \in LockKeys, v \in LockValues, ttl \in TTLs :
        /\ Release(c, [NoTask EXCEPT !.op = "set", !.val = Some(FoundInFull(k))])
        /\ InMemoryCache_set(k, v, ttl)
        /\ UNCHANGED <<svcVars, lockRest>>
LockedDelete ==
    \E c \in Callers, k \in LockKeys :
        Release(c, NoTask) /\ InMemoryCache_delete(k)
        /\ UNCHANGED <<svcVars, lockRest>>
LockedClearAll ==
    \E c \in Callers :
        Release(c, NoTask) /\ InMemoryCache_clear_all
        /\ UNCHANGED <<svcVars, lockRest>>
LockedClearPattern ==
    \E c \in Callers, pattern \in LockPatterns :
        Release(c, NoTask) /\ CacheService_clear_pattern(pattern)
        /\ UNCHANGED lockRest
LockedGetStats ==
    \E c \in Callers :
        Release(c, NoTask) /\ CacheService_get_stats /\ UNCHANGED lockRest
LockTick == Tick(1) /\ UNCHANGED <<svcVars, lockRest, lock, task>>

NextLock ==
    \/ LockCall \/ LockAcquire \/ LockedGet \/ LockedSet \/ LockedDelete
    \/ LockedClearAll \/ LockedClearPattern \/ LockedGetStats \/ LockTick

SpecLock == InitLock /\ [][NextLock]_vars

\* the cache service on a Redis server that a co-tenant uses too: the
\* co-tenant's key carries no prefix of the service.  The prefix is whatever
\* string the settings give; Redis reads `?` in a MATCH pattern as any character.
TenantPrefixes == {<<"n", ":">>, <<"n", "?">>}

CoTenantKeys == {PlainKey}

\* key.startswith(prefix)
HasPrefix(key, prefix) == Len(key) >= Len(prefix) /\ SubSeq(key, 1, Len(prefix)) = prefix

InitTenant ==
    /\ InitStore(ServiceKeys, {MaxCap})
    /\ InitCalls
    /\ stats = [hits |-> 0, misses |-> 0]
    /\ svc = NoSvc
    /\ redis = [k \in CoTenantKeys |->
                  [json |-> json_dumps(<<[name |-> "t"]>>).text, expire_at |-> None]]
    /\ kc = NoKey
    /\ backend = "None"
    /\ settings \in {[FullSettings EXCEPT !.use_redis = TRUE, !.redis_key_prefix = Some(p)] :
                        p \in TenantPrefixes}
    /\ env = [redis_pkg |-> TRUE, net |-> TRUE]

NextTenant ==
    \/ SvcStart \/ SvcGet \/ SvcSet \/ SvcDelete \/ SvcClearAll \/ SvcClearPattern
    \/ NetChange

SpecTenant == InitTenant /\ [][NextTenant]_vars

\* the culture loader of a running process: cultures are loaded and
\* reloaded, patterns are asked for, and the files change in between
QueryArgs ==
    {<<"elv", "initial", None>>, <<"elv", "initial", Some("female")>>,
     <<"elv", "final", Some("female")>>}

InitLoader == InitStore(Keys, {MaxCap}) /\ InitRest /\ backend = "InMemoryCache"

loaderRest == <<cacheVars, engineVars, svcVars, env, settings, lock, task>>

LoaderLoadAll == CultureLoader_load_all_cultures /\ UNCHANGED loaderRest
LoaderReload ==
    \E code \in CultureCodes : CultureLoader_reload_culture(code) /\ UNCHANGED loaderRest
LoaderReloadAll == CultureLoader_reload_all_cultures /\ UNCHANGED loaderRest
LoaderPatterns ==
    \E args \in QueryArgs :
        CultureLoader_get_syllable_patterns(args[1], args[2], args[3])
        /\ UNCHANGED loaderRest
LoaderWeighted ==
    \E args \in QueryArgs :
        CultureLoader_get_weighted_pattern(args[1], args[2], args[3])
        /\ UNCHANGED loaderRest
LoaderEdit ==
    \E code \in CultureCodes, contents \in {None} \cup {Some(c) : c \in CultureContents} :
        EditFile(code, contents) /\ UNCHANGED loaderRest

NextLoader ==
    \/ LoaderLoadAll \/ LoaderReload \/ LoaderReloadAll \/ LoaderPatterns
    \/ LoaderWeighted \/ LoaderEdit

SpecLoader == InitLoader /\ [][NextLoader]_vars

\* get_or_generate under concurrent callers: between the lookup, the awaited
\* generator and the write-back a caller can be suspended and another run
FlightKeys == {<<"a", "1">>}

InitFlight ==
    /\ InitStore(FlightKeys, {MaxCap})
    /\ InitRest
    /\ backend \in {"InMemoryCache", "NoOpCache"}

flightRest == <<engineVars, env, settings, disk, loader>>

FlightLookup ==
    \E c \in Callers, key \in FlightKeys :
        get_or_generate_lookup(c, key) /\ UNCHANGED flightRest
FlightGenerate ==
    \E c \in Callers, value \in Values :
        get_or_generate_generate(c, value) /\ UNCHANGED <<cacheVars, svcVars, flightRest>>
FlightStore ==
    \E c \in Callers, ttl \in {None, Some(0)} :
        get_or_generate_store(c, ttl) /\ UNCHANGED flightRest
FlightDone ==
    \E c \in Callers :
        get_or_generate_done(c) /\ UNCHANGED <<cacheVars, svcVars, flightRest>>
FlightTick == Tick(1) /\ UNCHANGED <<svcVars, flightRest, lock, task>>

NextFlight == FlightLookup \/ FlightGenerate \/ FlightStore \/ FlightDone \/ FlightTick

SpecFlight == InitFlight /\ [][NextFlight]_vars

(***************************************************************************)
(* The claims.                                                             *)
(***************************************************************************)

\* C1: after set(key, v, ttl) with ttl > 0 and no eviction, delete or clear
\* since, a get(key) strictly before insertion time + ttl returns v, and a
\* get(key) at or after insertion time + ttl returns absent.
C1_TTL ==
    [][\A k \in Keys :
         (lastSet[k].live /\ InMemoryCache_get(k)) =>
             IF now < lastSet[k].deadline
             THEN ret'.val = lastSet[k].v
             ELSE ret'.val = None]_vars

\* C1 happens: a key set with ttl > 0 has been read after its deadline and
\* found absent, in a run that also had a hit
C1_Witness ==
    /\ ret.op = "get"
    /\ ret.val = None
    /\ lastSet[ret.key[1]] = Lapsed
    /\ hits >= 1

\* C2: a set of a new key into a store that holds max_size keys leaves
\* exactly one of those max_size + 1 keys absent: the one whose last touch
\* (set or successful get) is the oldest.
C2_LRU ==
    [][\A k \in Keys, v \in Values, ttl \in TTLs :
         (/\ Len(cache) = max_size
          /\ k \notin CacheKeys(cache)
          /\ InMemoryCache_set(k, v, ttl)) =>
             /\ Head(touch) \in CacheKeys(cache)
             /\ CacheKeys(cache') = (CacheKeys(cache) \cup {k}) \ {Head(touch)}
             /\ Cardinality(CacheKeys(cache')) = max_size]_vars

\* C2 happens: a set has just evicted a key from a full store of unexpired
\* keys, after a get had hit
C2_Witness ==
    /\ ret.op = "set"
    /\ ret.val # None
    /\ max_size = MaxCap
    /\ Len(cache) = max_size
    /\ hits >= 1
    /\ \A k \in CacheKeys(cache) : Unexpired(expiry, k, now)

\* C3: a call with the request of the call before it, which returned at
\* least count names and whose entry is still cached, returns the same names
\* in the same order and calls the engine zero times.
C3_WarmCache ==
    (orch.pc = "done" /\ prev.valid /\ prev.request = orch.request /\ orch.warm) =>
        /\ orch.exc = "none"
        /\ orch.names = prev.names
        /\ EngineCalls = 0

\* C3 happens: the second of two calls with one request has returned the two
\* names the first returned, from the cache
C3_Witness ==
    /\ orch.pc = "done"
    /\ prev.valid
    /\ prev.request = orch.request
    /\ orch.warm
    /\ orch.hit
    /\ Len(orch.names) = 2

NoTwoAlike(names) ==
    \A i, j \in 1..Len(names) : i # j => lower(names[i].name) # lower(names[j].name)

\* C4: the list generate_names returns, and the list it is building, never
\* holds two entries whose names are equal ignoring case.
C4_Dedup == NoTwoAlike(orch.names) /\ NoTwoAlike(orch.generated_names)

\* C4 happens: a call has returned two names after the engine offered it a
\* name it already had
C4_Witness ==
    /\ orch.pc = "done"
    /\ orch.exc = "none"
    /\ Len(orch.names) = 2
    /\ orch.dup_seen

\* C5: on a miss generate_names calls the engine at most count * 10 times;
\* when it returns, it returns at most count names, and fewer than count only
\* after exactly count * 10 engine calls.
C5_AttemptBudget ==
    /\ EngineCalls <= orch.request.count * 10
    /\ (orch.pc = "done" /\ ~orch.hit /\ orch.exc = "none") =>
           /\ Len(orch.names) <= orch.request.count
           /\ (Len(orch.names) < orch.request.count =>
                   EngineCalls = orch.request.count * 10)

\* C5 happens: a call has returned short, a normal return, after its whole
\* budget
C5_Witness ==
    /\ orch.pc = "done"
    /\ ~orch.hit
    /\ orch.exc = "none"
    /\ orch.request.count = 2
    /\ Len(orch.names) = 1
    /\ EngineCalls = 20

\* C6: every name in a response has a score greater than or equal to the
\* min_score of the request the response answers.
C6_MinScore ==
    (orch.pc = "done" /\ orch.exc = "none") =>
        \A i \in 1..Len(orch.names) : orch.names[i].score >= orch.request.min_score

\* the pools of the culture's template are all empty
EmptyPools(culture) ==
    /\ culture \in DOMAIN templates
    /\ \A pool \in {templates[culture].consonants, templates[culture].vowels,
                    templates[culture].nasals, templates[culture].liquids} :
           pool = Some(<<>>)

\* a culture with a template whose pools are not empty
ValidCulture(culture) == culture \in DOMAIN templates /\ ~EmptyPools(culture)

IsFallback ==
    /\ gen.name = fallback_name(gen.culture, gen.gender).name
    /\ gen.score = 0

\* C7: generate raises no exception, and when no attempt scored 0.6 or more
\* it has made exactly `attempts` attempts and returns the fallback name with
\* score 0.0.
C7_Exhaustion ==
    (gen.pc = "done" /\ ValidCulture(gen.culture)) =>
        /\ gen.exc = "none"
        /\ (gen.score < 60 => gen.tried = gen.attempts /\ IsFallback)

\* C8 as claimed: with empty phoneme pools generate returns the fallback name
\* with score 0.0 instead of raising.
C8_FallbackOnEmptyPools ==
    (gen.pc = "done" /\ EmptyPools(gen.culture)) => (gen.exc = "none" /\ IsFallback)

\* C8 as amended: with empty phoneme pools, patterns that use them and a
\* budget of at least one attempt, generate raises IndexError out of the
\* syllable assembly of its first attempt, before any scoring.
C8_RaisesOnEmptyPools ==
    (gen.pc = "done" /\ EmptyPools(gen.culture) /\ gen.attempts >= 1) =>
        /\ gen.exc = "IndexError"
        /\ gen.tried = 1
        /\ gen.scored = 0

\* C8 happens: generate over empty pools, with its largest budget, has ended
C8_Witness ==
    /\ gen.pc = "done"
    /\ EmptyPools(gen.culture)
    /\ gen.attempts = MaxAttempts
    /\ gen.exc = "IndexError"

\* C9: generate returns a tuple with a non-empty syllable list whose
\* concatenation equals the name ignoring case, and a score in [0,1].
C9_ResultShape ==
    (gen.pc = "done" /\ ValidCulture(gen.culture)) =>
        /\ gen.exc = "none"
        /\ gen.syllables # <<>>
        /\ lower(join(gen.syllables)) = lower(gen.name)
        /\ 0 <= gen.score /\ gen.score <= 100

\* C10: score returns, for every name and culture, a value in [0,1].
C10_ScoreRange ==
    sc.pc = "done" => (sc.exc = "none" /\ 0 <= sc.val /\ sc.val <= 100)

\* C15: a get on a present, unexpired key makes that key the most recently
\* used and adds one to hits alone; a get on an expired key removes the key
\* from the store and adds one to misses alone; a get on an absent key adds
\* one to misses and changes nothing else.
C15_GetBookkeeping ==
    [][\A k \in Keys :
         InMemoryCache_get(k) =>
             IF k \in CacheKeys(cache) /\ (k \in DOMAIN expiry => now < expiry[k])
             THEN /\ cache'[Len(cache')].key = k
                  /\ CacheKeys(cache') = CacheKeys(cache)
                  /\ hits' = hits + 1
                  /\ misses' = misses
             ELSE IF k \in CacheKeys(cache)
             THEN /\ k \notin CacheKeys(cache')
                  /\ CacheKeys(cache') = CacheKeys(cache) \ {k}
                  /\ misses' = misses + 1
                  /\ hits' = hits
             ELSE /\ cache' = cache
                  /\ misses' = misses + 1
                  /\ hits' = hits]_vars

\* C15 happens: after a hit, a get has found its key expired and purged it
\* while another key stayed in the store
C15_Witness ==
    /\ ret.op = "get"
    /\ ret.val = None
    /\ lastSet[ret.key[1]] = Lapsed
    /\ ret.key[1] \notin CacheKeys(cache)
    /\ hits = 1
    /\ misses = 1
    /\ Len(cache) >= 1

\* every order the keyword arguments of a call can be written in
Orders(kwargs) ==
    {[i \in 1..Len(kwargs) |-> kwargs[f[i]]] :
       f \in {g \in [1..Len(kwargs) -> 1..Len(kwargs)] :
                \A i, j \in 1..Len(kwargs) : i # j => g[i] # g[j]}}

\* the order in which the names ascend
ByName(kwargs) ==
    CHOOSE o \in Orders(kwargs) :
        \A i \in 1..(Len(o) - 1) : StrLess(o[i].k, o[i + 1].k)

\* C14: generate_cache_key returns the same key for the same prefix and
\* name/value pairs in whatever order they are supplied; the key is the
\* prefix, "_" and the key:value pairs sorted by name and joined with "_",
\* and when that joined string is longer than 50 characters it is replaced
\* by a hash of fixed width (eight hexadecimal digits).
C14_KeyDeterministic ==
    kc.pc = "done" =>
        LET joined == param_str(ByName(kc.kwargs))
            key == kc.key[1]
        IN  /\ \A o \in Orders(kc.kwargs) :
                   CacheService_generate_cache_key(kc.prefix, o) = key
            /\ IF Len(joined) > 50
               THEN /\ Len(key) = Len(kc.prefix) + 1 + 8
                    /\ SubSeq(key, 1, Len(kc.prefix) + 1) = kc.prefix \o <<"_">>
                    /\ \A i \in (Len(kc.prefix) + 2)..Len(key) :
                           \E d \in 1..16 : HexDigits[d] = key[i]
               ELSE IF joined = <<>> THEN key = kc.prefix
               ELSE key = kc.prefix \o <<"_">> \o joined

\* C14 happens: a call whose three keyword arguments were written out of name
\* order, and join to more than 50 characters, has returned a hashed key
C14_Witness ==
    /\ kc.pc = "done"
    /\ Len(kc.kwargs) = 3
    /\ kc.kwargs # ByName(kc.kwargs)
    /\ \A i \in 1..3 : kc.kwargs[i].v # None
    /\ Len(param_str(ByName(kc.kwargs))) > 50
    /\ Len(kc.key[1]) = Len(kc.prefix) + 9

\* C11: initialize raises nothing and leaves a backend installed: the Redis
\* backend when Redis is configured and its reachability check can succeed,
\* the in-memory backend when the Redis backend's construction or ping fails,
\* the no-op backend when caching is disabled or the in-memory backend cannot
\* be constructed.
C11_InitPolicy ==
    svc.op = "initialize" =>
        LET disabled == settings.cache_disabled = Some(TRUE)
            reachable == env.redis_pkg /\ env.net
            in_process == settings.cache_max_size # None
        IN  /\ svc.exc = "none"
            /\ backend \in {"RedisCache", "InMemoryCache", "NoOpCache"}
            /\ (~disabled /\ settings.use_redis /\ reachable) => backend = "RedisCache"
            /\ (~disabled /\ settings.use_redis /\ ~reachable /\ in_process)
                   => backend = "InMemoryCache"
            /\ (disabled \/ (~(settings.use_redis /\ reachable) /\ ~in_process))
                   => backend = "NoOpCache"

\* C12: with the Redis backend and every network call failing, no operation
\* of the cache service (get, set, delete, clear_all, clear_pattern,
\* invalidate_culture_cache, ping, get_stats) hands the failure to its
\* caller: a read returns a miss, a write or a clear returns without effect.
C12_NoPropagation ==
    (svc.failed /\ svc.op # "initialize") =>
        /\ svc.exc = "none"
        /\ (svc.op = "get" => svc.val = None)
        /\ (svc.op \in {"set", "delete", "clear_all", "ping"} => svc.val = Some(FALSE))

\* the name lists of a culture that the backend still holds
StoredNames(culture) ==
    {e \in NameEntries :
        /\ e.culture = culture
        /\ LET key == names_key(e.culture, e.gender, Len(e.names))
           IN  IF backend = "InMemoryCache" THEN key \in CacheKeys(cache)
               ELSE backend = "RedisCache" /\ RedisHolds(make_key(key))}

\* C13: when invalidate_culture_cache(c) has returned, no name list stored by
\* cache_generated_names(c, g, names), for any gender g or none and any
\* length, is left in the cache, so that get_cached_names(c, g, count) misses.
C13_CultureInvalidation ==
    (svc.op = "invalidate_culture_cache" /\ svc.exc = "none") =>
        StoredNames(svc.arg[1]) = {}

\* C16: a key of the in-memory cache that was stored with ttl > 0 and whose
\* expiry time has not come leaves the store only by a delete of that key,
\* clear_all, clear_pattern (invalidate_culture_cache included) or a set of
\* another key into a full store of which it is the oldest; no get and no
\* set below capacity removes it.
C16_NoEarlyPurge ==
    [][\A k \in ServiceKeys :
         (/\ backend = "InMemoryCache"
          /\ k \in CacheKeys(cache)
          /\ k \in DOMAIN expiry
          /\ now < expiry[k]
          /\ k \notin CacheKeys(cache')) =>
             \/ CacheService_delete(k)
             \/ CacheService_clear_all
             \/ \E pattern \in Patterns :
                    fnmatch(k, pattern) /\ CacheService_clear_pattern(pattern)
             \/ \E culture \in {elvish, dwarven} :
                    CacheService_invalidate_culture_cache(culture)
             \/ /\ Len(cache) = max_size
                /\ k = cache[1].key
                /\ ret'.op = "set"
                /\ ret'.key # Some(k)
                /\ ret'.key[1] \notin CacheKeys(cache)]_vars

\* C16 happens: after a hit and a tick of the clock, a set below capacity has
\* filled the store and every key in it is still short of its expiry time
C16_Witness ==
    /\ backend = "InMemoryCache"
    /\ ret.op = "set"
    /\ ret.val = None
    /\ Len(cache) = max_size
    /\ max_size = MaxCap
    /\ hits >= 1
    /\ now >= 1
    /\ \A k \in CacheKeys(cache) : k \in DOMAIN expiry /\ now < expiry[k]

\* C17: when _store_name fails for a name generate_names has accepted, the
\* call still returns its normal response, with that name in it.
C17_StoreIsolated ==
    (orch.pc = "done" /\ orch.store_failed) =>
        /\ orch.exc = "none"
        /\ \A i \in 1..Len(orch.generated_names) :
               \E j \in 1..Len(orch.names) : orch.names[j] = orch.generated_names[i]

\* the pattern list the claim names for a position: the gender's own list for
\* that position when the template has one, the base list otherwise
PatternsFor(template, gender, pos) ==
    IF /\ gender # None
       /\ gender[1] \in DOMAIN template.gender_patterns
       /\ pos \in DOMAIN template.gender_patterns[gender[1]]
    THEN template.gender_patterns[gender[1]][pos]
    ELSE template.patterns[pos]

\* C20: for each of initial, medial and final the pattern of a syllable is
\* drawn from the gender's list for that position when the template defines
\* one for the requested gender and from the base list otherwise; a gender
\* that overrides only initial and final still yields names of three or more
\* syllables, their middle syllables drawn from the base medial list.
C20_PerPositionPatterns ==
    (gen.pc = "done" /\ ValidCulture(gen.culture) /\ gen.tried >= 1) =>
        LET template == templates[gen.culture]
            n == Len(gen.syllables)
        IN  /\ gen.exc # "KeyError"
            /\ \A i \in 1..n :
                   \E p \in 1..Len(PatternsFor(template, gen.gender, position(i - 1, n))) :
                       [exc |-> "none", val |-> gen.syllables[i]] \in
                           SyllableGenerator_generate(
                               PatternsFor(template, gen.gender, position(i - 1, n))[p],
                               template)

\* the count a request asks for: 1 when the body names none
AskedCount(request) == IF request.count = None THEN 1 ELSE request.count[1]

\* the culture a request asks for: "generic" when the body names none
AskedCulture(request) ==
    IF request.culture = None \/ request.culture = Some("") THEN "generic"
    ELSE request.culture[1]

\* C19: POST /generate of the MVP answers a count outside 1..50 with HTTP 400
\* and no names, and a known culture with a count within 1..50 with exactly
\* count names and total_count = count.
C19_CountLimits ==
    mvp.pc = "done" =>
        /\ AskedCount(mvp.request) \notin 1..50 =>
               (mvp.status = 400 /\ mvp.names = <<>>)
        /\ (AskedCount(mvp.request) \in 1..50
                /\ AskedCulture(mvp.request) \in DOMAIN NAMES_DB) =>
               /\ mvp.status = 200
               /\ Len(mvp.names) = AskedCount(mvp.request)
               /\ mvp.total_count = AskedCount(mvp.request)

\* C21: every attempt of generate that scores its candidate either returns it,
\* capitalized and with its score of 0.6 or more, or goes on to the next
\* attempt; no attempt follows the return, and a result other than the
\* fallback has a score of 0.6 or more.
C21_Acceptance ==
    [][/\ (gen.pc = "loop" /\ gen'.scored = gen.scored + 1) =>
            /\ gen'.exc = "none"
            /\ \/ gen'.pc = "loop"
               \/ /\ gen'.pc = "done"
                  /\ gen'.score >= 60
                  /\ gen'.name = capitalize(join(gen'.syllables))
       /\ gen.pc = "done" => gen' = gen
       /\ (gen'.pc = "done" /\ gen'.exc = "none" /\ gen'.tried < gen'.attempts) =>
            gen'.score >= 60]_vars

\* the letters a pattern symbol stands for under a template
PoolOf(template, char) ==
    LET pool == CASE char = "C" -> GetOr(template.consonants, default_consonants)
                  [] char = "V" -> GetOr(template.vowels, default_vowels)
                  [] char = "N" -> GetOr(template.nasals, <<"m", "n">>)
                  [] char = "L" -> GetOr(template.liquids, <<"l", "r">>)
                  [] OTHER -> <<char>>
    IN  {pool[i] : i \in 1..Len(pool)}

\* the syllable spells the pattern: one letter of the symbol's pool per symbol
Spells(syllable, pattern, template) ==
    /\ Len(syllable) = Len(pattern)
    /\ \A i \in 1..Len(pattern) : syllable[i] \in PoolOf(template, pattern[i])

\* the syllable spells one of the patterns listed for the position
FromList(syllable, where, culture, gender) ==
    LET patterns == active_patterns(templates[culture], gender)
    IN  /\ where \in DOMAIN patterns
        /\ \E k \in 1..Len(patterns[where]) :
             Spells(syllable, patterns[where][k], templates[culture])

\* generate has assembled a candidate (and handed it to the scorer)
HasCandidate == gen.scored > 0 /\ gen.syllables # <<>> /\ ~IsFallback

FixtureCallDone == gen.pc = "done" /\ gen.culture = "elvish" /\ gen.attempts >= 1

\* C23: with the test fixture's template, generate with length=short gives a
\* name of at most 5 characters and generate with length=long gives a name of
\* at least 9 characters.
C23_LengthConstraint ==
    (FixtureCallDone /\ gen.length \in {Some("short"), Some("long")}) =>
        /\ gen.exc = "none"
        /\ gen.length = Some("short") => Len(gen.name) <= 5
        /\ gen.length = Some("long") => Len(gen.name) >= 9

\* C24: with the test fixture's template and no length given, generate
\* returns a name of at least 3 characters.
C24_MinimumLength ==
    (FixtureCallDone /\ gen.length = None) =>
        (gen.exc = "none" /\ Len(gen.name) >= 3)

\* C25: the score of a five-letter name without any of the vowels a, e, i,
\* o, u, y (such as Xkrth and Zzzng) is strictly below 0.5.
C25_DifficultNamesLow ==
    (/\ sc.pc = "done"
     /\ Len(sc.name) = 5
     /\ \A i \in 1..5 : lower(sc.name)[i] \notin scorer_vowels) =>
        (sc.exc = "none" /\ sc.val < 50)

\* the occurrences of the difficult clusters in a text, each place where
\* one of them starts counted once
Occurrences(text) ==
    Cardinality({i \in 1..Len(text) :
                   \E k \in 1..Len(difficult_clusters) :
                      /\ i + 2 <= Len(text)
                      /\ SubSeq(text, i, i + 2) = difficult_clusters[k]})

\* C26: a name holding k occurrences of thr, spr, str and scr in all loses
\* 0.2 x k: its score is 1.0 less the other penalties less 0.2 x k, clamped.
C26_ClusterPerOccurrence ==
    (sc.pc = "done" /\ sc.name # <<>>) =>
        LET p == penalties(sc.name, sc.culture)
        IN  /\ sc.exc = "none"
            /\ sc.val = Clamp(100 - p.initial - p.final - p.ratio - p.runs - p.harsh
                                  - 20 * Occurrences(lower(sc.name)))

\* C27: the score of a name whose lower-cased form ends in h, w or y is 1.0
\* less the other penalties less 0.1, clamped, and the score of any other
\* name is 1.0 less the other penalties, clamped.
C27_ForbiddenFinal ==
    (sc.pc = "done" /\ sc.name # <<>>) =>
        LET p == penalties(sc.name, sc.culture)
            name_lower == lower(sc.name)
            last == name_lower[Len(name_lower)]
        IN  /\ sc.exc = "none"
            /\ p.clusters.exc = "none"
            /\ sc.val = Clamp(100 - p.initial - p.clusters.val - p.ratio - p.runs
                                  - p.harsh - (IF last \in {"h", "w", "y"} THEN 10 ELSE 0))

\* what a cache.get(key) made now would hand back
WouldGet(key) ==
    IF backend = "InMemoryCache"
    THEN IF Live(key) THEN Some(Lookup(cache, key)) ELSE None
    ELSE IF backend = "RedisCache" /\ env.net /\ RedisHolds(make_key(key))
    THEN Some(json_loads(redis[make_key(key)].json))
    ELSE None

\* the time at which the entry of key lapses, None if it has no entry or
\* its entry never lapses
Deadline(key) ==
    IF backend = "InMemoryCache"
    THEN IF key \in DOMAIN expiry THEN Some(expiry[key]) ELSE None
    ELSE IF backend = "RedisCache" /\ make_key(key) \in DOMAIN redis
    THEN redis[make_key(key)].expire_at
    ELSE None

\* C28: when generate_names returns from the miss path of a service that
\* caches, the list it returns, partial or empty as it may be, is stored
\* under the request's cache key with a TTL of 3600: a get of that key made
\* right after the return yields that list.
C28_WriteBack ==
    [][(orch.pc = "loop" /\ orch'.pc = "done" /\ orch'.exc = "none"
        /\ backend # "NoOpCache") =>
          /\ WouldGet(generate_cache_key(orch.request))' = Some(orch'.names)
          /\ Deadline(generate_cache_key(orch.request))' = Some(now' + NamesTTL)]_vars

\* the guide with its separators taken out
Unhyphenated(guide) == SelectSeq(guide, LAMBDA c : c # "-")

\* C29: every name accepted for a request with include_pronunciation has a
\* guide which, its '-' separators removed, is exactly the lower-cased name;
\* a name accepted for a request without include_pronunciation has no guide.
C29_PronunciationGuide ==
    \A i \in 1..Len(orch.generated_names) :
        LET g == orch.generated_names[i]
        IN  IF orch.request.include_pronunciation
            THEN /\ g.pronunciation # None
                 /\ Unhyphenated(g.pronunciation[1]) = lower(g.name)
            ELSE g.pronunciation = None

\* the pattern asks for a draw from a pool that is empty
NeedsEmptyPool(pattern, template) ==
    \E i \in 1..Len(pattern) :
        pattern[i] \in {"C", "V", "N", "L"} /\ PoolOf(template, pattern[i]) = {}

\* C30: the assembled syllable is as long as the pattern and holds, at each
\* position, a member of the consonant, vowel, nasal or liquid pool for the
\* symbol C, V, N or L and the pattern's own character for any other symbol;
\* when the pattern needs an empty pool the assembly fails and returns no
\* syllable.
C30_SyllableAssembly ==
    syl.pc = "done" =>
        IF NeedsEmptyPool(syl.pattern, syl.template)
        THEN syl.exc # "none" /\ syl.val = <<>>
        ELSE syl.exc = "none" /\ Spells(syl.val, syl.pattern, syl.template)

\* C30 happens: a syllable assembled from a liquid and a literal character
\* over a template with an empty pool the pattern does not need
C30_Witness ==
    /\ syl.pc = "done"
    /\ syl.pattern = <<"L", "'">>
    /\ syl.template.nasals = Some(<<>>)
    /\ syl.exc = "none"
    /\ syl.val = <<"r", "'">>

\* C30 happens: an assembly that fails on the empty pool its pattern needs,
\* after a draw that succeeded
C30_WitnessFails ==
    /\ syl.pc = "done"
    /\ syl.pattern = <<"V", "N">>
    /\ syl.template.vowels = None
    /\ syl.template.nasals = Some(<<>>)
    /\ syl.exc = "IndexError"

\* C31: callers of the in-process cache exclude each other.  After every step
\* at most one caller is inside a `with self.lock:` block; a step that changes
\* the ordered map or the expiry map is taken by the one caller that holds the
\* lock and is inside its block; and no step taken while the lock is held
\* touches the Redis server.
C31_MutualExclusion ==
    [][/\ Cardinality({c \in Callers : task'[c].pc = "inside"}) <= 1
       /\ <<cache, expiry>>' # <<cache, expiry>> =>
              \E c \in Callers : lock = Some(c) /\ Inside = {c}
       /\ lock # None => redis' = redis]_vars

\* C31: one caller is inside a block of a store that holds an entry while the
\* other has called and waits for the lock
C31_Witness ==
    \E c, d \in Callers :
        /\ c # d
        /\ lock = Some(c)
        /\ task[c].pc = "inside"
        /\ task[d].pc = "waiting"
        /\ cache # <<>>

\* C32: the Redis backend stays inside its namespace.  No step of the cache
\* service changes or removes an entry of the Redis server whose key does not
\* start with the configured prefix.
C32_Namespacing ==
    [][\A k \in DOMAIN redis :
          ~HasPrefix(k, key_prefix) => k \in DOMAIN redis' /\ redis'[k] = redis[k]]_vars

\* C32: the same, for a prefix that holds no character Redis reads as a wildcard
C32_PlainPrefix ==
    [][key_prefix = <<"n", ":">> =>
          \A k \in DOMAIN redis :
              ~HasPrefix(k, key_prefix) => k \in DOMAIN redis' /\ redis'[k] = redis[k]]_vars

\* C33: for a loaded culture, get_syllable_patterns returns exactly the
\* gender-specific list of the position when the culture has a non-empty one
\* for the gender asked for, and the base list of the position otherwise.
C33_GenderOverride ==
    (loader.last.op = "get_syllable_patterns"
     /\ loader.last.args[1] \in DOMAIN loader.cultures) =>
        LET culture == loader.cultures[loader.last.args[1]]
            pos == loader.last.args[2]
            gender == loader.last.args[3]
            over == IF gender = None THEN <<>>
                    ELSE gender_patterns(culture, pos, gender[1])
        IN  loader.last.val = IF over # <<>> THEN over ELSE base_patterns(culture, pos)

\* C33: the same, for the cultures whose gender-specific list names every
\* pattern string of the base list it stands in for
C33_WhenAllOverridden ==
    (loader.last.op = "get_syllable_patterns"
     /\ loader.last.args[1] \in DOMAIN loader.cultures) =>
        LET culture == loader.cultures[loader.last.args[1]]
            pos == loader.last.args[2]
            gender == loader.last.args[3]
            over == IF gender = None THEN <<>>
                    ELSE gender_patterns(culture, pos, gender[1])
            base == base_patterns(culture, pos)
        IN  (over = <<>> \/ pattern_strings(base) \subseteq pattern_strings(over)) =>
                loader.last.val = IF over # <<>> THEN over ELSE base

\* C40: get_weighted_pattern follows the cultures as they are loaded now: what
\* it returns is a pattern of the list get_syllable_patterns returns for the
\* same arguments at that moment (None when that list is empty).
C40_CurrentDraw ==
    loader.last.op = "get_weighted_pattern" =>
        loader.last.val \in weighted_pattern(loader.cultures, loader.last.args)

\* C34: the backend that initialize installed stays.  No step of get, set,
\* delete, clear_all, clear_pattern, ping or get_stats, whether the backend
\* answers or fails, changes which backend the CacheService holds.
C34_BackendFixed == [][backend # "None" => backend' = backend]_vars

\* C34: a clear_pattern has ended in a connection error, or a ping has found
\* the server gone, and the service still holds its Redis backend
C34_Witness ==
    /\ backend = "RedisCache"
    /\ svc.failed
    /\ \/ svc.op = "clear_pattern" /\ svc.exc = "ConnectionError"
       \/ svc.op = "ping" /\ svc.val = Some(FALSE)

\* the Settings class of the repository, built with no overrides: it declares
\* use_redis and cache_ttl, and none of cache_disabled, redis_key_prefix and
\* cache_max_size
RepoSettings ==
    [cache_disabled |-> None, use_redis |-> FALSE, redis_key_prefix |-> None,
     cache_max_size |-> None, cache_ttl |-> SettingsCacheTTL]

\* C35: with the repository's default settings, initialize installs the
\* in-memory backend.
C35_DefaultInMemory ==
    (svc.op = "initialize" /\ settings = RepoSettings) => backend = "InMemoryCache"

\* a caller has just left the with block of a set
SetDone(c) == task[c].pc = "idle" /\ task[c].op = "set"

\* C36: the in-process cache never holds more entries than its capacity,
\* whatever the callers do and in whatever order; and a set of a key that the
\* store already holds removes no key, also when the store is full.
C36_Capacity ==
    [][/\ Len(cache') <= max_size'
       /\ \A c \in Callers :
              (task[c].pc = "inside" /\ SetDone(c)' /\ task'[c].val = Some(TRUE)) =>
                  CacheKeys(cache) \subseteq CacheKeys(cache')]_vars

\* C36: a set has found its key in a full store, and after it the store of
\* the largest capacity is still full
C36_Witness ==
    \E c \in Callers :
        /\ SetDone(c)
        /\ task[c].val = Some(TRUE)
        /\ max_size = MaxCap
        /\ Len(cache) = max_size

\* C39: every key that has an expiry record is a key of the ordered map,
\* whatever the callers do and in whatever order.
C39_ExpiryWithinCache == DOMAIN expiry \subseteq CacheKeys(cache)

\* C39: a get has found the time of its key up and purged it, entry and
\* expiry record alike, while another key is held with its record
C39_Witness ==
    \E k \in LockKeys :
        /\ ret = [op |-> "get", key |-> Some(k), val |-> None]
        /\ lastSet[k] = Lapsed
        /\ k \notin CacheKeys(cache)
        /\ k \notin DOMAIN expiry
        /\ DOMAIN expiry # {}

\* the step is a get of key k: InMemoryCache.get counts a hit or a miss
GetOf(k) ==
    /\ ret'.op = "get"
    /\ ret'.key = Some(k)
    /\ hits' + misses' = hits + misses + 1

\* C37: an entry stored with ttl <= 0 never expires.  A get of a key whose
\* latest set had ttl <= 0, and that has not been evicted, deleted or cleared
\* since, returns the stored value, whatever the clock says and whatever ttl
\* the key was set with before.
C37_NeverExpires ==
    [][\A k \in Keys :
          (k \in CacheKeys(cache) /\ ~lastSet[k].live /\ GetOf(k)) =>
              ret'.val = Some(Lookup(cache, k))]_vars

\* C37: the same, for the keys that hold no expiry record of an earlier set
C37_WithoutOlderRecord ==
    [][\A k \in Keys :
          (k \in CacheKeys(cache) /\ ~lastSet[k].live /\ k \notin DOMAIN expiry
           /\ GetOf(k)) =>
              ret'.val = Some(Lookup(cache, k))]_vars

\* the callers whose generator has been invoked for the key and who have not
\* returned yet
Generating(key) ==
    {c \in Callers : task[c].pc \in {"generating", "generated"} /\ task[c].key = Some(key)}

\* C38: get_or_generate generates once.  Of the callers that are inside
\* get_or_generate for one key at the same time, at most one has had its
\* generator invoked, and callers that return together return the same value.
C38_SingleGeneration ==
    \A key \in FlightKeys :
        /\ Cardinality(Generating(key)) <= 1
        /\ \A c, d \in Callers :
               (task[c].pc = "returned" /\ task[d].pc = "returned"
                /\ task[c].key = Some(key) /\ task[d].key = Some(key)) =>
                   task[c].val = task[d].val

\* C38: a call that finds the entry returns the cached value and invokes no
\* generator
C38_HitReturnsCached ==
    [][\A c \in Callers, key \in FlightKeys :
          (task[c].pc = "idle" /\ task'[c].pc # "idle" /\ task'[c].key = Some(key)
           /\ backend = "InMemoryCache" /\ key \in CacheKeys(cache)
           /\ Unexpired(expiry, key, now)) =>
              /\ task'[c].pc = "returned"
              /\ task'[c].val = Some(Lookup(cache, key))]_vars

====
